---- MODULE Spec2Model ----
(***************************************************************************)
(* A model of the xcoff_tool snapshot engine: the comparison engine and    *)
(* the capture engine of core.py, the snapshot store of storage.py, the    *)
(* analyzers of analyzers.py and the snapshot command of cli.py.           *)
(*                                                                         *)
(* Python values are modelled as follows.  A dict with string keys is a    *)
(* function (record) whose DOMAIN is its key set; the empty dict is <<>>.  *)
(* A list is a sequence.  None is the record None below (for optional      *)
(* dicts and snapshots) or the string NoneStr (for optional strings).      *)
(* A str that the code inspects character by character (a file path) is a  *)
(* sequence of one-character strings; every other str is a TLA+ string.    *)
(***************************************************************************)
EXTENDS Integers, Sequences, FiniteSets, TLC

VARIABLES
    snap1,      \* first argument of compare
    snap2,      \* second argument of compare
    hashOrder,  \* iteration order of a set of analyzer names in this process
    pc,         \* which calls of compare have been made
    result,     \* compare(snap1, snap2)
    reverse,    \* compare(snap2, snap1)
    selfres,    \* compare(snap1, snap1)
    files,      \* record files of the database: <<name, relative path>> -> JSON text
    dirs,       \* names that have a directory under snapshots/
    registry,   \* registry.txt: whether it exists, and its rows
    clock,      \* number of changes of the database made so far
    lastOp,     \* the last Storage call and what it returned
    _ANALYZERS, \* analyzers.py: the keys of the registry, in insertion order
    args,       \* arguments of the snapshot command
    capPc,      \* position of the snapshot command in its loop over the files
    fileIdx,    \* index in args.files of the file being processed
    selected,   \* capture: the keys of selected, in iteration order
    capSnapshot, \* capture: the snapshot under construction
    runLog,     \* capture: the analyzers run so far, in the order of the runs
    tool,       \* what subprocess.run does with each command line
    analysis,   \* the last call of analyze: its result and the commands it ran
    vfile,      \* the file given to the validator
    validation, \* XCOFFValidator().validate(filepath)
    writer,     \* the store calls in progress in concurrent processes
    against     \* the compare command with --against: what its lookup found

cmpVars == <<snap1, snap2, hashOrder, pc, result, reverse, selfres>>

storeVars == <<files, dirs, registry, clock, lastOp>>

capVars == <<_ANALYZERS, args, capPc, fileIdx, selected, capSnapshot, runLog>>

anaVars == <<tool, analysis>>

valVars == <<vfile, validation>>

extVars == <<valVars, writer, against>>

vars == <<cmpVars, storeVars, capVars, anaVars, extVars>>

----------------------------------------------------------------------------
(* Bounds of the model *)

MaxStrings == 2     \* longest identification-string list
MaxSections == 2    \* longest section list
MaxSyms == 1        \* longest import list and longest export list
MaxOps == 2         \* changes of the database in one run

----------------------------------------------------------------------------
(* Python helpers *)

None == [py_none |-> TRUE]
NoneStr == "None"

Range(s) == {s[i] : i \in DOMAIN s}

SeqsUpTo(S, n) == UNION {[1..k -> S] : k \in 0..n}

\* dict.get(k, default)
Get(d, k, default) == IF k \in DOMAIN d THEN d[k] ELSE default

\* list(a_set): the order of the elements is not specified by Python; the
\* model fixes one order per set and the properties read only the elements.
SetToList(S) == CHOOSE s \in [1..Cardinality(S) -> S] : Range(s) = S

\* bool(x) for x an Optional[dict]
Truthy(d) == d # None /\ DOMAIN d # {}

\* An insertion-ordered dict: the keys in insertion order and the values.
EmptyDict == [keys |-> <<>>, val |-> <<>>]

\* d[k] = v on an insertion-ordered dict
DictSet(d, k, v) ==
    [keys |-> IF k \in Range(d.keys) THEN d.keys ELSE Append(d.keys, k),
     val  |-> [x \in (DOMAIN d.val) \cup {k} |-> IF x = k THEN v ELSE d.val[x]]]

\* iteration order of set(S) for a set S of analyzer names
IterOrder(S, order) == SelectSeq(order, LAMBDA n : n \in S)

RECURSIVE Join(_, _)
\* sep.join(parts)
Join(parts, sep) ==
    IF parts = <<>> THEN ""
    ELSE IF Len(parts) = 1 THEN parts[1]
    ELSE parts[1] \o sep \o Join(Tail(parts), sep)

\* the capture engine and the analyzers before any call
CaptureIdle ==
    /\ _ANALYZERS = <<>>
    /\ args = None
    /\ capPc = "idle"
    /\ fileIdx = 0
    /\ selected = <<>>
    /\ capSnapshot = None
    /\ runLog = <<>>

AnalyzeIdle ==
    /\ tool = <<>>
    /\ analysis = None

\* the validator, the concurrent writers and the compare command before any call
ExtIdle ==
    /\ vfile = None
    /\ validation = None
    /\ writer = <<>>
    /\ against = None

----------------------------------------------------------------------------
(* core.py: data classes *)

AnalysisResult(name, success, data, error, truncated) ==
    [analyzer_name |-> name, success |-> success, data |-> data,
     error |-> error, truncated |-> truncated]

Snapshot(filepath, timestamp, file_size, file_mtime, file_type, name, results) ==
    [filepath |-> filepath, timestamp |-> timestamp,
     file_size |-> file_size, file_mtime |-> file_mtime,
     file_type |-> file_type, name |-> name, results |-> results]

\* a snapshot as capture returns it: no name yet
Captured(filepath, file_size, results) ==
    Snapshot(filepath, "2024-01-01T00:00:00", file_size, "2023-12-31T00:00:00",
             "xcoff32", NoneStr, results)

ComparisonResult(filepath1, filepath2, has_differences, summary, analyzer_diffs) ==
    [filepath1 |-> filepath1, filepath2 |-> filepath2,
     has_differences |-> has_differences, summary |-> summary,
     analyzer_diffs |-> analyzer_diffs]

----------------------------------------------------------------------------
(* core.py: ComparisonEngine *)

DiffWhatListsMutant(data1, data2) ==
    LET l1 == Get(data1, "strings", <<>>)
        l2 == Get(data2, "strings", <<>>)
        added == Range(l2) \ Range(l1)
        removed == Range(l1) \ Range(l2)
    IN  IF l1 # l2
        THEN [added |-> SetToList(added), removed |-> SetToList(removed),
              unchanged |-> Len(l1)]
        ELSE None

_diff_what(data1, data2) ==
    LET strings1 == Range(Get(data1, "strings", <<>>))
        strings2 == Range(Get(data2, "strings", <<>>))
        added == strings2 \ strings1
        removed == strings1 \ strings2
    IN  IF added # {} \/ removed # {}
        THEN [added |-> SetToList(added), removed |-> SetToList(removed),
              unchanged |-> Cardinality(strings1 \cap strings2)]
        ELSE None

\* {s["name"]: s for s in sections}: a later record of a name replaces an
\* earlier one.
KeyByName(sections) ==
    [n \in {sections[i].name : i \in DOMAIN sections} |->
        LET last == CHOOSE i \in DOMAIN sections :
                        /\ sections[i].name = n
                        /\ \A j \in DOMAIN sections :
                               sections[j].name = n => j <= i
        IN  sections[last]]

\* The loop runs over the names of the second list only.
DiffSectionsSecondOnlyMutant(data1, data2) ==
    LET secs1 == KeyByName(Get(data1, "sections", <<>>))
        secs2 == KeyByName(Get(data2, "sections", <<>>))
        changed == {n \in DOMAIN secs2 :
                       \/ n \notin DOMAIN secs1
                       \/ secs1[n] # secs2[n]}
        changes == [n \in changed |->
                       IF n \notin DOMAIN secs1
                       THEN [status |-> "added", new |-> secs2[n]]
                       ELSE [status |-> "modified", old |-> secs1[n],
                             new |-> secs2[n]]]
    IN  IF changed # {} THEN changes ELSE None

_diff_sections(data1, data2) ==
    LET secs1 == KeyByName(Get(data1, "sections", <<>>))
        secs2 == KeyByName(Get(data2, "sections", <<>>))
        all_names == (DOMAIN secs1) \cup (DOMAIN secs2)
        changed == {n \in all_names :
                       \/ n \notin DOMAIN secs1
                       \/ n \notin DOMAIN secs2
                       \/ secs1[n] # secs2[n]}
        changes == [n \in changed |->
                       IF n \notin DOMAIN secs1
                       THEN [status |-> "added", new |-> secs2[n]]
                       ELSE IF n \notin DOMAIN secs2
                       THEN [status |-> "removed", old |-> secs1[n]]
                       ELSE [status |-> "modified", old |-> secs1[n],
                             new |-> secs2[n]]]
    IN  IF changed # {} THEN changes ELSE None

\* set(s.get("name", "") for s in symbols)
SymNames(symbols) == {Get(symbols[i], "name", "") : i \in DOMAIN symbols}

DiffLoaderCopyPasteMutant(data1, data2) ==
    LET imp1 == SymNames(Get(data1, "imports", <<>>))
        imp2 == SymNames(Get(data2, "imports", <<>>))
        exp1 == SymNames(Get(data1, "exports", <<>>))
        exp2 == SymNames(Get(data2, "imports", <<>>))
        keys == {k \in {"imports", "exports"} :
                    IF k = "imports" THEN imp1 # imp2 ELSE exp1 # exp2}
        changes == [k \in keys |->
                       IF k = "imports"
                       THEN [added |-> SetToList(imp2 \ imp1),
                             removed |-> SetToList(imp1 \ imp2)]
                       ELSE [added |-> SetToList(exp2 \ exp1),
                             removed |-> SetToList(exp1 \ exp2)]]
    IN  IF keys # {} THEN changes ELSE None

_diff_loader(data1, data2) ==
    LET imp1 == SymNames(Get(data1, "imports", <<>>))
        imp2 == SymNames(Get(data2, "imports", <<>>))
        exp1 == SymNames(Get(data1, "exports", <<>>))
        exp2 == SymNames(Get(data2, "exports", <<>>))
        keys == {k \in {"imports", "exports"} :
                    IF k = "imports" THEN imp1 # imp2 ELSE exp1 # exp2}
        changes == [k \in keys |->
                       IF k = "imports"
                       THEN [added |-> SetToList(imp2 \ imp1),
                             removed |-> SetToList(imp1 \ imp2)]
                       ELSE [added |-> SetToList(exp2 \ exp1),
                             removed |-> SetToList(exp1 \ exp2)]]
    IN  IF keys # {} THEN changes ELSE None

_diff_data(analyzer, data1, data2) ==
    IF analyzer = "what" THEN _diff_what(data1, data2)
    ELSE IF analyzer = "dump-h" THEN _diff_sections(data1, data2)
    ELSE IF analyzer = "dump-T" THEN _diff_loader(data1, data2)
    ELSE IF data1 # data2
         THEN [changed |-> TRUE, old |-> data1, new |-> data2]
         ELSE None

\* The metadata step of compare: the accumulator holds diffs and
\* has_differences.
MetadataAlwaysMutant(s1, s2) ==
    [diffs |-> DictSet(EmptyDict, "_metadata",
                       [file_size |-> [old |-> s1.file_size, new |-> s2.file_size]]),
     has_differences |-> TRUE]

CompareMetadata(s1, s2) ==
    IF s1.file_size # s2.file_size
    THEN [diffs |-> DictSet(EmptyDict, "_metadata",
                            [file_size |-> [old |-> s1.file_size,
                                            new |-> s2.file_size]]),
          has_differences |-> TRUE]
    ELSE [diffs |-> EmptyDict, has_differences |-> FALSE]

\* One pass of the loop over all_analyzers, with the status words swapped.
CompareStepSwappedMutant(s1, s2, name, acc) ==
    IF name \notin DOMAIN s1.results
    THEN [diffs |-> DictSet(acc.diffs, name, [status |-> "removed"]),
          has_differences |-> TRUE]
    ELSE IF name \notin DOMAIN s2.results
    THEN [diffs |-> DictSet(acc.diffs, name, [status |-> "added"]),
          has_differences |-> TRUE]
    ELSE IF s1.results[name].data # s2.results[name].data
    THEN LET diff == _diff_data(name, s1.results[name].data, s2.results[name].data)
         IN  IF Truthy(diff)
             THEN [diffs |-> DictSet(acc.diffs, name, diff), has_differences |-> TRUE]
             ELSE acc
    ELSE acc

\* One pass of the loop over all_analyzers.
CompareStep(s1, s2, name, acc) ==
    IF name \notin DOMAIN s1.results
    THEN [diffs |-> DictSet(acc.diffs, name, [status |-> "added"]),
          has_differences |-> TRUE]
    ELSE IF name \notin DOMAIN s2.results
    THEN [diffs |-> DictSet(acc.diffs, name, [status |-> "removed"]),
          has_differences |-> TRUE]
    ELSE IF s1.results[name].data # s2.results[name].data
    THEN LET diff == _diff_data(name, s1.results[name].data, s2.results[name].data)
         IN  IF Truthy(diff)
             THEN [diffs |-> DictSet(acc.diffs, name, diff), has_differences |-> TRUE]
             ELSE acc
    ELSE acc

RECURSIVE CompareLoop(_, _, _, _)
CompareLoop(s1, s2, names, acc) ==
    IF names = <<>> THEN acc
    ELSE CompareLoop(s1, s2, Tail(names), CompareStep(s1, s2, Head(names), acc))

FragmentSwappedMutant(name, diff) ==
    IF name = "_metadata" THEN "file size changed"
    ELSE IF "added" \in DOMAIN diff /\ "removed" \in DOMAIN diff
    THEN name \o ": +" \o ToString(Len(diff.removed))
              \o " -" \o ToString(Len(diff.added))
    ELSE IF "status" \in DOMAIN diff THEN name \o ": " \o diff.status
    ELSE name \o ": changed"

\* The part _build_summary appends for one entry of diffs.
Fragment(name, diff) ==
    IF name = "_metadata" THEN "file size changed"
    ELSE IF "added" \in DOMAIN diff /\ "removed" \in DOMAIN diff
    THEN name \o ": +" \o ToString(Len(diff.added))
              \o " -" \o ToString(Len(diff.removed))
    ELSE IF "status" \in DOMAIN diff THEN name \o ": " \o diff.status
    ELSE name \o ": changed"

BuildSummaryNoEmptyMutant(diffs) ==
    LET parts == [i \in DOMAIN diffs.keys |->
                     Fragment(diffs.keys[i], diffs.val[diffs.keys[i]])]
    IN  IF parts # <<>> THEN Join(parts, "; ") ELSE "differences found"

_build_summary(diffs) ==
    IF diffs.keys = <<>> THEN "No differences"
    ELSE LET parts == [i \in DOMAIN diffs.keys |->
                          Fragment(diffs.keys[i], diffs.val[diffs.keys[i]])]
         IN  IF parts # <<>> THEN Join(parts, "; ") ELSE "differences found"

\* compare(snap1, snap2) in a process whose sets of names iterate in `order`.
compare(s1, s2, order) ==
    LET all_analyzers == (DOMAIN s1.results) \cup (DOMAIN s2.results)
        acc == CompareLoop(s1, s2, IterOrder(all_analyzers, order),
                           CompareMetadata(s1, s2))
    IN  ComparisonResult(s1.filepath, s2.filepath, acc.has_differences,
                         _build_summary(acc.diffs), acc.diffs)

----------------------------------------------------------------------------
(* The snapshots compare is applied to.  The data of a result has the     *)
(* shape its analyzer builds (analyzers.py); a failed result has the      *)
(* default empty data.  "custom" stands for an analyzer registered beside *)
(* the three built-in ones.                                               *)

BuiltinNames == {"what", "dump-h", "dump-T"}
AnalyzerNames == BuiltinNames \cup {"custom"}

Absent == [absent |-> TRUE]

Ok(name, data) == AnalysisResult(name, TRUE, data, NoneStr, FALSE)
Failed(name, error) == AnalysisResult(name, FALSE, <<>>, error, FALSE)

\* WhatAnalyzer.analyze: data of a successful run
WhatData(strings) == [strings |-> strings, count |-> Len(strings)]

\* DumpHeadersAnalyzer.analyze: data of a successful run
SectionsData(sections) ==
    [sections |-> sections, count |-> Len(sections), raw |-> "raw"]

\* DumpLoaderAnalyzer.analyze: data of a successful run
LoaderData(imports, exports) ==
    [imports |-> imports, exports |-> exports,
     import_count |-> Len(imports), export_count |-> Len(exports),
     raw |-> "raw"]

IdStrings == {"a", "b"}

Section(index, name, size) == [index |-> index, name |-> name, size |-> size]
\* a row of the table with fewer than three tokens has no size
SectionRecords ==
    {Section(1, ".text", "10"), Section(1, ".text", "20"),
     Section(2, ".data", "10"), [index |-> 2, name |-> ".data"]}

ImportSym(name) == [name |-> name, type |-> "IMP", raw |-> name]
ExportSym(name, address) ==
    [name |-> name, type |-> "EXP", address |-> address, raw |-> name]
ImportRecords == {ImportSym(n) : n \in {"foo", "bar"}}
ExportRecords ==
    {ExportSym("foo", "0x1000"), ExportSym("foo", "0x2000"),
     ExportSym("bar", "0x1000")}

WhatResults ==
    {Ok("what", WhatData(l)) : l \in SeqsUpTo(IdStrings, MaxStrings)}
    \cup {Failed("what", "Timeout after 300s"), Failed("what", "Exit code 1")}

SectionResults ==
    {Ok("dump-h", SectionsData(l)) : l \in SeqsUpTo(SectionRecords, MaxSections)}
    \cup {Failed("dump-h", "Exit code 1")}

LoaderResults ==
    {Ok("dump-T", LoaderData(i, e)) :
        i \in SeqsUpTo(ImportRecords, MaxSyms), e \in SeqsUpTo(ExportRecords, MaxSyms)}
    \cup {Failed("dump-T", "Exit code 1")}

CustomResults ==
    {AnalysisResult("custom", TRUE, [k |-> "v1"], NoneStr, FALSE),
     AnalysisResult("custom", FALSE, [k |-> "v1"], "partial", TRUE),
     AnalysisResult("custom", TRUE, [k |-> "v2"], NoneStr, FALSE)}

FilePath == <<"/", "a">>
FileSizes == {100, 200}

\* the results mapping holding the chosen result of every analyzer that ran
Results(choice) ==
    [n \in {m \in AnalyzerNames : choice[m] # Absent} |-> choice[n]]

Choice(w, h, t, c) ==
    [n \in AnalyzerNames |->
        IF n = "what" THEN w ELSE IF n = "dump-h" THEN h
        ELSE IF n = "dump-T" THEN t ELSE c]

\* snapshots with any combination of analyzers, one value each
MixedSnapshots ==
    {Captured(FilePath, z, Results(Choice(w, h, t, c))) :
        z \in FileSizes,
        w \in {Absent, Ok("what", WhatData(<<"a">>)), Ok("what", WhatData(<<"a", "b">>))},
        h \in {Absent, Ok("dump-h", SectionsData(<<Section(1, ".text", "10")>>))},
        t \in {Absent, Ok("dump-T", LoaderData(<<>>, <<ExportSym("bar", "0x1000")>>))},
        c \in {Absent} \cup CustomResults}

\* snapshots of one analyzer, every value of it
SingleSnapshots ==
    {Captured(FilePath, 100, Results(Choice(w, Absent, Absent, Absent))) :
        w \in WhatResults}
    \cup
    {Captured(FilePath, 100, Results(Choice(Absent, h, Absent, Absent))) :
        h \in SectionResults}
    \cup
    {Captured(FilePath, 100, Results(Choice(Absent, Absent, t, Absent))) :
        t \in LoaderResults}

Snapshots == MixedSnapshots \cup SingleSnapshots

\* Orders in which a set of analyzer names can iterate (the order follows
\* the string hashes, which differ from process to process).
HashOrders ==
    {<<"what", "dump-h", "dump-T", "custom">>,
     <<"dump-T", "custom", "what", "dump-h">>}

----------------------------------------------------------------------------
(* The comparison engine applied to two snapshots *)

InitCompare ==
    /\ snap1 \in Snapshots
    /\ snap2 \in Snapshots
    /\ hashOrder \in HashOrders
    /\ pc = "ready"
    /\ result = None
    /\ reverse = None
    /\ selfres = None
    /\ files = <<>>
    /\ dirs = {}
    /\ registry = [exists |-> FALSE, rows |-> <<>>]
    /\ clock = 0
    /\ lastOp = [op |-> "none"]
    /\ CaptureIdle
    /\ AnalyzeIdle
    /\ ExtIdle

Compare ==
    /\ pc = "ready"
    /\ result' = compare(snap1, snap2, hashOrder)
    /\ pc' = "compared"
    /\ UNCHANGED <<snap1, snap2, hashOrder, reverse, selfres, storeVars, capVars, anaVars, extVars>>

CompareReverse ==
    /\ pc = "compared"
    /\ reverse' = compare(snap2, snap1, hashOrder)
    /\ pc' = "both"
    /\ UNCHANGED <<snap1, snap2, hashOrder, result, selfres, storeVars, capVars, anaVars, extVars>>

CompareSelf ==
    /\ pc = "ready"
    /\ selfres' = compare(snap1, snap1, hashOrder)
    /\ pc' = "self"
    /\ UNCHANGED <<snap1, snap2, hashOrder, result, reverse, storeVars, capVars, anaVars, extVars>>

NextCompare == Compare \/ CompareReverse \/ CompareSelf

SpecCompare == InitCompare /\ [][NextCompare]_vars

----------------------------------------------------------------------------
(* Properties of the comparison engine *)

Diffs(r) == r.analyzer_diffs
HasEntry(r, n) == n \in Range(Diffs(r).keys)
Entry(r, n) == Diffs(r).val[n]
InBoth(n) == n \in DOMAIN snap1.results /\ n \in DOMAIN snap2.results
Data1(n) == snap1.results[n].data
Data2(n) == snap2.results[n].data

\* the elements of a list are exactly the set S, each once
ListsSet(l, S) == Range(l) = S /\ Len(l) = Cardinality(S)

\* C2: compare(S, S) gives has_differences = false and an empty
\* analyzer_diffs map, for every snapshot S.
C2_Idempotence ==
    pc = "self" =>
        /\ selfres.has_differences = FALSE
        /\ Diffs(selfres) = EmptyDict

C2_Witness ==
    /\ pc = "self"
    /\ snap1.file_size = 200
    /\ \E n \in DOMAIN snap1.results : ~snap1.results[n].success
    /\ \E n \in DOMAIN snap1.results : snap1.results[n].success

SwapStatus(s) ==
    IF s = "added" THEN "removed" ELSE IF s = "removed" THEN "added" ELSE s

\* entry e of compare(A, B) and entry r of compare(B, A) for analyzer n
EntrySymmetric(n, e, r) ==
    IF "status" \in DOMAIN e
    THEN "status" \in DOMAIN r /\ r.status = SwapStatus(e.status)
    ELSE IF n = "what"
    THEN /\ "added" \in DOMAIN r /\ "removed" \in DOMAIN r
         /\ Range(e.added) = Range(r.removed)
         /\ Range(e.removed) = Range(r.added)
    ELSE IF n = "dump-h"
    THEN /\ DOMAIN e = DOMAIN r
         /\ \A s \in DOMAIN e : r[s].status = SwapStatus(e[s].status)
    ELSE IF n = "dump-T"
    THEN /\ DOMAIN e = DOMAIN r
         /\ \A k \in DOMAIN e :
                /\ Range(e[k].added) = Range(r[k].removed)
                /\ Range(e[k].removed) = Range(r[k].added)
    ELSE TRUE

\* C3: compare(A, B) and compare(B, A) have the same keys in analyzer_diffs;
\* "added" and "removed" are swapped, at the level of analyzers and inside
\* the what, dump-h and dump-T entries, and modified names are the same.
C3_Symmetry ==
    pc = "both" =>
        /\ Range(Diffs(result).keys) = Range(Diffs(reverse).keys)
        /\ \A n \in Range(Diffs(result).keys) :
               HasEntry(reverse, n)
               /\ EntrySymmetric(n, Entry(result, n), Entry(reverse, n))

C3_Witness ==
    /\ pc = "both"
    /\ HasEntry(result, "dump-h")
    /\ "status" \notin DOMAIN Entry(result, "dump-h")
    /\ \E s \in DOMAIN Entry(result, "dump-h") :
           Entry(result, "dump-h")[s].status = "modified"
    /\ \E s \in DOMAIN Entry(result, "dump-h") :
           Entry(result, "dump-h")[s].status = "added"

SameData ==
    /\ snap1.file_size = snap2.file_size
    /\ DOMAIN snap1.results = DOMAIN snap2.results
    /\ \A n \in DOMAIN snap1.results : Data1(n) = Data2(n)

\* C4: has_differences is true exactly when analyzer_diffs has an entry,
\* summary is "No differences" exactly when has_differences is false, and
\* two snapshots of equal file size and equal data for every analyzer give
\* has_differences = false and summary "No differences".
C4_HasDifferences ==
    pc \in {"compared", "both"} =>
        /\ result.has_differences <=> (Diffs(result).keys # <<>>)
        /\ (result.summary = "No differences") <=> ~result.has_differences
        /\ SameData =>
               ~result.has_differences /\ result.summary = "No differences"

C4_Witness ==
    /\ pc = "compared"
    /\ SameData
    /\ snap1 # snap2
    /\ DOMAIN snap1.results # {}

\* C5: a name only in A gets {status: "removed"}, a name only in B gets
\* {status: "added"}, a name in both with unequal data gets what its diff
\* routine returns (the generic {changed, old, new} outside the built-in
\* names), and a name in both with equal data gets no entry.
C5_AnalyzerUnion ==
    pc = "compared" =>
        \A n \in (DOMAIN snap1.results) \cup (DOMAIN snap2.results) :
            IF n \notin DOMAIN snap2.results
            THEN HasEntry(result, n) /\ Entry(result, n) = [status |-> "removed"]
            ELSE IF n \notin DOMAIN snap1.results
            THEN HasEntry(result, n) /\ Entry(result, n) = [status |-> "added"]
            ELSE IF Data1(n) = Data2(n)
            THEN ~HasEntry(result, n)
            ELSE IF n \notin BuiltinNames
            THEN /\ HasEntry(result, n)
                 /\ Entry(result, n) =
                        [changed |-> TRUE, old |-> Data1(n), new |-> Data2(n)]
            ELSE LET routine == IF n = "what" THEN _diff_what(Data1(n), Data2(n))
                                ELSE IF n = "dump-h"
                                THEN _diff_sections(Data1(n), Data2(n))
                                ELSE _diff_loader(Data1(n), Data2(n))
                 IN  /\ HasEntry(result, n) <=> Truthy(routine)
                     /\ HasEntry(result, n) => Entry(result, n) = routine

C5_Witness ==
    /\ pc = "compared"
    /\ (DOMAIN snap1.results) \ (DOMAIN snap2.results) # {}
    /\ (DOMAIN snap2.results) \ (DOMAIN snap1.results) # {}
    /\ InBoth("custom")
    /\ Data1("custom") # Data2("custom")
    /\ snap1.results["custom"].success # snap2.results["custom"].success
    /\ snap1.results["custom"].truncated # snap2.results["custom"].truncated

\* the names of a list of symbol records
NamesOf(symbols) == {symbols[i].name : i \in DOMAIN symbols}

\* A and B are the same snapshot but for one export foo at 0x1000 added in B
OneAddedExportFoo ==
    /\ InBoth("dump-T")
    /\ "exports" \in DOMAIN Data1("dump-T")
    /\ "foo" \notin NamesOf(Data1("dump-T").exports)
    /\ snap2 = [snap1 EXCEPT !.results["dump-T"].data =
                    LoaderData(Data1("dump-T").imports,
                               Append(Data1("dump-T").exports,
                                      ExportSym("foo", "0x1000")))]

\* C6: the dump-T entry has a key imports exactly when the import name sets
\* differ and a key exports exactly when the export name sets differ, each
\* with added = names only in B and removed = names only in A; one added
\* export foo gives {"exports": {"added": ["foo"], "removed": []}} and
\* has_differences; equal name sets give no dump-T entry.
C6_LoaderDiff ==
    (pc = "compared" /\ InBoth("dump-T")) =>
        LET i1 == NamesOf(Get(Data1("dump-T"), "imports", <<>>))
            i2 == NamesOf(Get(Data2("dump-T"), "imports", <<>>))
            e1 == NamesOf(Get(Data1("dump-T"), "exports", <<>>))
            e2 == NamesOf(Get(Data2("dump-T"), "exports", <<>>))
        IN  /\ HasEntry(result, "dump-T") <=> (i1 # i2 \/ e1 # e2)
            /\ HasEntry(result, "dump-T") =>
                   LET e == Entry(result, "dump-T")
                   IN  /\ DOMAIN e \subseteq {"imports", "exports"}
                       /\ "imports" \in DOMAIN e <=> i1 # i2
                       /\ "exports" \in DOMAIN e <=> e1 # e2
                       /\ "imports" \in DOMAIN e =>
                              /\ DOMAIN e.imports = {"added", "removed"}
                              /\ ListsSet(e.imports.added, i2 \ i1)
                              /\ ListsSet(e.imports.removed, i1 \ i2)
                       /\ "exports" \in DOMAIN e =>
                              /\ DOMAIN e.exports = {"added", "removed"}
                              /\ ListsSet(e.exports.added, e2 \ e1)
                              /\ ListsSet(e.exports.removed, e1 \ e2)
            /\ OneAddedExportFoo =>
                   /\ Diffs(result).keys = <<"dump-T">>
                   /\ Entry(result, "dump-T") =
                          [exports |-> [added |-> <<"foo">>, removed |-> <<>>]]
                   /\ result.has_differences

C6_Witness ==
    /\ pc = "compared"
    /\ OneAddedExportFoo
    /\ Data1("dump-T").imports # <<>>

\* C7: for two what results with unequal data there is no what entry when
\* the two strings lists are equal as sets; otherwise the entry is
\* {added: strings only in B, removed: strings only in A, unchanged: the
\* number of strings in both}.
C7_WhatDiff ==
    (pc = "compared" /\ InBoth("what") /\ Data1("what") # Data2("what")) =>
        LET s1 == Range(Get(Data1("what"), "strings", <<>>))
            s2 == Range(Get(Data2("what"), "strings", <<>>))
        IN  /\ HasEntry(result, "what") <=> s1 # s2
            /\ HasEntry(result, "what") =>
                   LET e == Entry(result, "what")
                   IN  /\ DOMAIN e = {"added", "removed", "unchanged"}
                       /\ ListsSet(e.added, s2 \ s1)
                       /\ ListsSet(e.removed, s1 \ s2)
                       /\ e.unchanged = Cardinality(s1 \cap s2)

C7_Witness ==
    /\ pc = "compared"
    /\ InBoth("what")
    /\ snap1.results["what"].success /\ snap2.results["what"].success
    /\ Data1("what").strings = <<"a", "a">>
    /\ Data2("what").strings = <<"b", "a">>
    /\ HasEntry(result, "what")

\* the records of section name n in a list, in list order
RecordsOf(sections, n) == SelectSeq(sections, LAMBDA r : r.name = n)

\* C8: for every section name of A or B the dump-h entry says added (only in
\* B), removed (only in A) or modified (in both, records unequal) with the
\* records concerned; a name whose records are equal has no entry, and there
\* is no dump-h entry only when no name is in one of the three classes, also
\* when a name occurs more than once in a list.  The records of a name are
\* compared as sets, so that neither order nor repetition counts as a change.
C8_SectionDiff ==
    (pc = "compared" /\ InBoth("dump-h") /\ Data1("dump-h") # Data2("dump-h")) =>
        LET l1 == Get(Data1("dump-h"), "sections", <<>>)
            l2 == Get(Data2("dump-h"), "sections", <<>>)
            e == IF HasEntry(result, "dump-h") THEN Entry(result, "dump-h") ELSE <<>>
        IN  /\ DOMAIN e \subseteq NamesOf(l1) \cup NamesOf(l2)
            /\ \A n \in NamesOf(l1) \cup NamesOf(l2) :
                   LET r1 == RecordsOf(l1, n)
                       r2 == RecordsOf(l2, n)
                   IN  IF r1 = <<>>
                       THEN /\ n \in DOMAIN e
                            /\ DOMAIN e[n] = {"status", "new"}
                            /\ e[n].status = "added"
                            /\ e[n].new \in Range(r2)
                       ELSE IF r2 = <<>>
                       THEN /\ n \in DOMAIN e
                            /\ DOMAIN e[n] = {"status", "old"}
                            /\ e[n].status = "removed"
                            /\ e[n].old \in Range(r1)
                       ELSE IF Range(r1) # Range(r2)
                       THEN /\ n \in DOMAIN e
                            /\ DOMAIN e[n] = {"status", "old", "new"}
                            /\ e[n].status = "modified"
                            /\ e[n].old \in Range(r1)
                            /\ e[n].new \in Range(r2)
                       ELSE n \notin DOMAIN e

\* the fragment of one entry, in one of the three forms
ThreeFormFragment(name, e) ==
    IF "added" \in DOMAIN e /\ "removed" \in DOMAIN e
    THEN name \o ": +" \o ToString(Len(e.added)) \o " -" \o ToString(Len(e.removed))
    ELSE IF "status" \in DOMAIN e
    THEN name \o ": " \o e.status
    ELSE name \o ": changed"

\* C9 as stated: summary is the fragments of all entries of the diff map, in
\* its iteration order, each in one of the three forms, joined by "; "; an
\* empty map gives "No differences".
C9_SummaryThreeForms ==
    pc = "compared" =>
        result.summary =
            IF Diffs(result).keys = <<>> THEN "No differences"
            ELSE Join([i \in DOMAIN Diffs(result).keys |->
                          ThreeFormFragment(Diffs(result).keys[i],
                                            Entry(result, Diffs(result).keys[i]))],
                      "; ")

\* C9 amended: the _metadata entry is rendered as "file size changed" and
\* every other entry in one of the three forms; the fragments follow the
\* iteration order of the diff map and are joined by "; "; an empty map
\* gives "No differences".
C9_Summary ==
    pc = "compared" =>
        result.summary =
            IF Diffs(result).keys = <<>> THEN "No differences"
            ELSE Join([i \in DOMAIN Diffs(result).keys |->
                          IF Diffs(result).keys[i] = "_metadata"
                          THEN "file size changed"
                          ELSE ThreeFormFragment(Diffs(result).keys[i],
                                                 Entry(result, Diffs(result).keys[i]))],
                      "; ")

C9_Witness ==
    /\ pc = "compared"
    /\ result.summary = 
           "file size changed; dump-T: added; custom: changed; what: +1 -0; dump-h: removed"

----------------------------------------------------------------------------
(* Python values as json.dump sees them.  The data of a stored result is  *)
(* a tree of tagged values; the tag is the Python type.                   *)

PyNone == [t |-> "None", v |-> "None"]
PyBool(b) == [t |-> "bool", v |-> b]
PyInt(n) == [t |-> "int", v |-> n]
PyStr(s) == [t |-> "str", v |-> s]
PyList(l) == [t |-> "list", v |-> l]
PyTuple(l) == [t |-> "tuple", v |-> l]
PyDict(d) == [t |-> "dict", v |-> d]

RECURSIVE JsonDump(_)
\* json.dump: the JSON text, as the tree of JSON values it denotes.  A tuple
\* is written as an array, like a list.
JsonDump(x) ==
    CASE x.t = "None" -> [j |-> "null", v |-> "null"]
      [] x.t = "bool" -> [j |-> "bool", v |-> x.v]
      [] x.t = "int" -> [j |-> "number", v |-> x.v]
      [] x.t = "str" -> [j |-> "string", v |-> x.v]
      [] x.t \in {"list", "tuple"} ->
             [j |-> "array", v |-> [i \in DOMAIN x.v |-> JsonDump(x.v[i])]]
      [] x.t = "dict" ->
             [j |-> "object", v |-> [k \in DOMAIN x.v |-> JsonDump(x.v[k])]]

RECURSIVE JsonLoad(_)
\* json.load: an array is read as a list, an object as a dict.
JsonLoad(y) ==
    CASE y.j = "null" -> PyNone
      [] y.j = "bool" -> PyBool(y.v)
      [] y.j = "number" -> PyInt(y.v)
      [] y.j = "string" -> PyStr(y.v)
      [] y.j = "array" -> PyList([i \in DOMAIN y.v |-> JsonLoad(y.v[i])])
      [] y.j = "object" -> PyDict([k \in DOMAIN y.v |-> JsonLoad(y.v[k])])

\* Optional[str] to a Python value and back
OptStr(s) == IF s = NoneStr THEN PyNone ELSE PyStr(s)
StrOrNone(x) == IF x.t = "None" THEN NoneStr ELSE x.v

ToDictNoErrorMutant(snapshot) ==
    PyDict([version |-> PyStr("1.0"),
            name |-> OptStr(snapshot.name),
            filepath |-> PyStr(snapshot.filepath),
            timestamp |-> PyStr(snapshot.timestamp),
            file_size |-> PyInt(snapshot.file_size),
            file_mtime |-> PyStr(snapshot.file_mtime),
            file_type |-> PyStr(snapshot.file_type),
            results |-> PyDict([n \in DOMAIN snapshot.results |->
                PyDict([success |-> PyBool(snapshot.results[n].success),
                        data |-> snapshot.results[n].data,
                        truncated |-> PyBool(snapshot.results[n].truncated)])])])

\* Snapshot.to_dict
to_dict(snapshot) ==
    PyDict([version |-> PyStr("1.0"),
            name |-> OptStr(snapshot.name),
            filepath |-> PyStr(snapshot.filepath),
            timestamp |-> PyStr(snapshot.timestamp),
            file_size |-> PyInt(snapshot.file_size),
            file_mtime |-> PyStr(snapshot.file_mtime),
            file_type |-> PyStr(snapshot.file_type),
            results |-> PyDict([n \in DOMAIN snapshot.results |->
                PyDict([success |-> PyBool(snapshot.results[n].success),
                        data |-> snapshot.results[n].data,
                        error |-> OptStr(snapshot.results[n].error),
                        truncated |-> PyBool(snapshot.results[n].truncated)])])])

\* the keys from_dict reads with data[...]: a missing one raises KeyError
RequiredKeys == {"filepath", "timestamp", "file_size", "file_mtime"}

\* the exception Snapshot.from_dict raises on data, NoneStr when it raises
\* none.  data.get, .items() and r.get need dicts (AttributeError); the
\* results are read before the required keys (KeyError).
FromDictError(data) ==
    IF data.t # "dict" THEN "AttributeError"
    ELSE LET rs == Get(data.v, "results", PyDict(<<>>))
         IN  IF rs.t # "dict" THEN "AttributeError"
             ELSE IF \E n \in DOMAIN rs.v : rs.v[n].t # "dict" THEN "AttributeError"
             ELSE IF ~(RequiredKeys \subseteq DOMAIN data.v) THEN "KeyError"
             ELSE NoneStr

\* Snapshot.from_dict, for data on which it raises nothing
from_dict(data) ==
    LET rs == Get(data.v, "results", PyDict(<<>>)).v
        results == [n \in DOMAIN rs |->
            AnalysisResult(n,
                           Get(rs[n].v, "success", PyBool(FALSE)).v,
                           Get(rs[n].v, "data", PyDict(<<>>)),
                           StrOrNone(Get(rs[n].v, "error", PyNone)),
                           Get(rs[n].v, "truncated", PyBool(FALSE)).v)]
    IN  Snapshot(data.v.filepath.v, data.v.timestamp.v, data.v.file_size.v,
                 data.v.file_mtime.v, Get(data.v, "file_type", PyStr("unknown")).v,
                 StrOrNone(Get(data.v, "name", PyNone)), results)

----------------------------------------------------------------------------
(* storage.py: Storage *)

JsonExt == <<".", "j", "s", "o", "n">>

RECURSIVE LStrip(_, _)
\* str.lstrip(chars)
LStrip(str, chars) ==
    IF str # <<>> /\ Head(str) \in chars THEN LStrip(Tail(str), chars) ELSE str

RECURSIVE RStrip(_, _)
\* str.rstrip(chars): chars is a set of characters, not a suffix
RStrip(str, chars) ==
    IF str # <<>> /\ str[Len(str)] \in chars
    THEN RStrip(SubSeq(str, 1, Len(str) - 1), chars)
    ELSE str

\* Storage._filepath_to_relpath
_filepath_to_relpath(filepath) ==
    LET rel == LStrip(LStrip(filepath, {"/"}), {"\\"})
    IN  SelectSeq(rel, LAMBDA c : c # ":") \o JsonExt

\* removesuffix(".json") in place of rstrip(".json")
RelpathToFilepathSuffixMutant(relpath) ==
    <<"/">> \o SubSeq(relpath, 1, Len(relpath) - Len(JsonExt))

\* Storage._relpath_to_filepath
_relpath_to_filepath(relpath) ==
    <<"/">> \o RStrip(relpath, Range(JsonExt))

\* the record files in the directory of a name (snap_dir.rglob("*.json"))
FilesOf(fs, name) == {k \in DOMAIN fs : k[1] = name}

\* sorted(names): the names of the model in Python's string order
SetNames == {"v1", "v2"}
NameOrder == <<"#x", "v1", "v2">>
Sorted(S) == SelectSeq(NameOrder, LAMBDA n : n \in S)

RECURSIVE StripRow(_)
\* line.strip().split("\t"): trailing empty fields are lost with the tabs
StripRow(parts) ==
    IF parts # <<>> /\ parts[Len(parts)] = ""
    THEN StripRow(SubSeq(parts, 1, Len(parts) - 1))
    ELSE parts

\* the entries read from registry.txt: name -> parts
ReadEntries(reg, skip) ==
    LET rows == IF reg.exists THEN reg.rows ELSE <<>>
        kept == SelectSeq([i \in DOMAIN rows |-> StripRow(rows[i])],
                          LAMBDA r : /\ r # <<>>
                                     /\ ~(r[1] # "" /\ SubSeq(r[1], 1, 1) = "#")
                                     /\ Len(r) >= 3
                                     /\ r[1] \notin skip)
    IN  [n \in {kept[i][1] : i \in DOMAIN kept} |->
            kept[CHOOSE i \in DOMAIN kept :
                     /\ kept[i][1] = n
                     /\ \A j \in DOMAIN kept : kept[j][1] = n => j <= i]]

\* Storage._write_registry
_write_registry(entries) ==
    [exists |-> TRUE,
     rows |-> [i \in DOMAIN Sorted(DOMAIN entries) |-> entries[Sorted(DOMAIN entries)[i]]]]

Now(t) == "t" \o ToString(t)

\* Storage._update_registry, on the files as they are after the write
_update_registry(reg, fs, name, now) ==
    LET file_count == Cardinality(FilesOf(fs, name))
        entries == ReadEntries(reg, {})
        row == IF name \in DOMAIN entries
               THEN [entries[name] EXCEPT ![3] = ToString(file_count)]
               ELSE <<name, now, ToString(file_count), "">>
    IN  _write_registry([n \in (DOMAIN entries) \cup {name} |->
                            IF n = name THEN row ELSE entries[n]])

\* Storage._remove_from_registry
_remove_from_registry(reg, name) ==
    IF ~reg.exists THEN reg ELSE _write_registry(ReadEntries(reg, {name}))

\* the text of a record file that json.load rejects (JSONDecodeError)
NotJson == [j |-> "invalid"]

\* a call that ends with an exception of class e
Raised(e) == [py_raise |-> e]

\* Storage.load: of the exceptions of json.load and from_dict it catches
\* JSONDecodeError and KeyError
load(fs, name, filepath) ==
    LET json_path == <<name, _filepath_to_relpath(filepath)>>
    IN  IF json_path \notin DOMAIN fs THEN None
        ELSE IF fs[json_path].j = NotJson.j THEN None
        ELSE LET data == JsonLoad(fs[json_path])
                 err == FromDictError(data)
             IN  IF err = "KeyError" THEN None
                 ELSE IF err # NoneStr THEN Raised(err)
                 ELSE from_dict(data)

\* Storage.list_files: the order of rglob is that of the directory
list_files(fs, name) ==
    LET found == SetToList(FilesOf(fs, name))
    IN  [i \in DOMAIN found |-> _relpath_to_filepath(found[i][2])]

----------------------------------------------------------------------------
(* The snapshots given to store, and the calls made on a database *)

JsonWhat == PyDict([strings |-> PyList(<<PyStr("a")>>), count |-> PyInt(1)])
JsonNested ==
    PyDict([sections |-> PyList(<<PyDict([index |-> PyInt(1),
                                          name |-> PyStr(".text"),
                                          address |-> PyNone])>>),
            stripped |-> PyBool(TRUE)])
TupleData == PyDict([pair |-> PyTuple(<<PyStr("a"), PyInt(1)>>)])

StoreResults ==
    {[n \in {"what"} |-> AnalysisResult("what", TRUE, JsonWhat, NoneStr, FALSE)],
     [n \in {"what", "custom"} |->
         IF n = "what"
         THEN AnalysisResult("what", FALSE, PyDict(<<>>), "Timeout after 300s", FALSE)
         ELSE AnalysisResult("custom", TRUE, JsonNested, NoneStr, TRUE)],
     [n \in {"custom"} |-> AnalysisResult("custom", TRUE, TupleData, NoneStr, FALSE)]}

\* canonical absolute paths of files; a colon is an ordinary character of a
\* POSIX file name
StorePaths ==
    {<<"/", "a">>, <<"/", "a", "s">>, <<"/", "l", "s">>, <<"/", "a", ":", "s">>}

StoreSnapshots == {Captured(p, 100, r) : p \in StorePaths, r \in StoreResults}

InitStore ==
    /\ files = <<>>
    /\ dirs = {}
    /\ registry = [exists |-> FALSE, rows |-> <<>>]
    /\ clock = 0
    /\ lastOp = [op |-> "none"]
    /\ snap1 = None
    /\ snap2 = None
    /\ hashOrder = <<>>
    /\ pc = "store"
    /\ result = None
    /\ reverse = None
    /\ selfres = None
    /\ CaptureIdle
    /\ AnalyzeIdle
    /\ ExtIdle

\* Storage.store(name, snapshot): what the call does to the database and to
\* the snapshot object, whose name it assigns (snap is the object after the
\* call, before is its name before the call)
StoreCall(name, snap) ==
    /\ LET named == [snap EXCEPT !.name = name]
           json_path == <<name, _filepath_to_relpath(named.filepath)>>
           written == [k \in (DOMAIN files) \cup {json_path} |->
                          IF k = json_path THEN JsonDump(to_dict(named))
                          ELSE files[k]]
       IN  /\ files' = written
           /\ dirs' = dirs \cup {name}
           /\ registry' = _update_registry(registry, written, name, Now(clock))
           /\ lastOp' = [op |-> "store", name |-> name, snap |-> named,
                         ret |-> json_path, before |-> snap.name]
    /\ clock' = clock + 1

\* the snapshot object of the last store call, which its caller still holds
HeldSnapshots == IF lastOp.op = "store" THEN {lastOp.snap} ELSE {}

\* a call of Storage.store on a database
Store(name, snap) ==
    /\ clock < MaxOps
    /\ StoreCall(name, snap)
    /\ UNCHANGED <<cmpVars, capVars, anaVars, extVars>>

\* Storage.load(name, filepath)
Load(name, filepath) ==
    /\ lastOp' = [op |-> "load", name |-> name, filepath |-> filepath,
                  ret |-> load(files, name, filepath),
                  justStored |-> IF /\ lastOp.op = "store"
                                    /\ lastOp.name = name
                                    /\ lastOp.snap.filepath = filepath
                                 THEN lastOp.snap ELSE None]
    /\ UNCHANGED <<files, dirs, registry, clock, cmpVars, capVars, anaVars, extVars>>

\* Storage.list_files(name)
ListFiles(name) ==
    /\ lastOp' = [op |-> "list_files", name |-> name,
                  ret |-> IF name \in dirs THEN list_files(files, name) ELSE <<>>]
    /\ UNCHANGED <<files, dirs, registry, clock, cmpVars, capVars, anaVars, extVars>>

\* Storage.delete_snapshot(name)
DeleteSnapshot(name) ==
    /\ clock < MaxOps
    /\ IF name \notin dirs
       THEN /\ lastOp' = [op |-> "delete", name |-> name, ret |-> FALSE]
            /\ UNCHANGED <<files, dirs, registry>>
       ELSE /\ files' = [k \in (DOMAIN files) \ FilesOf(files, name) |-> files[k]]
            /\ dirs' = dirs \ {name}
            /\ registry' = _remove_from_registry(registry, name)
            /\ lastOp' = [op |-> "delete", name |-> name, ret |-> TRUE]
    /\ clock' = clock + 1
    /\ UNCHANGED <<cmpVars, capVars, anaVars, extVars>>

\* record files as they are when damaged: text that is not JSON, a JSON
\* list, an object without filepath, an object whose results is a list,
\* an object whose results holds a string
DamagedRecords ==
    LET good == to_dict(Captured(<<"/", "a">>, 100, <<>>)).v
        without == [k \in (DOMAIN good) \ {"filepath"} |-> good[k]]
    IN  {NotJson,
         JsonDump(PyList(<<>>)),
         JsonDump(PyDict(without)),
         JsonDump(PyDict([good EXCEPT !.results = PyList(<<>>)])),
         JsonDump(PyDict([good EXCEPT !.results = PyDict([what |-> PyStr("x")])]))}

\* a record file of the database is damaged (by a crash, by another program)
Corrupt(k, content) ==
    /\ clock < MaxOps
    /\ k \in DOMAIN files
    /\ files' = [files EXCEPT ![k] = content]
    /\ lastOp' = [op |-> "corrupt", path |-> k]
    /\ clock' = clock + 1
    /\ UNCHANGED <<dirs, registry, cmpVars, capVars, anaVars, extVars>>

RECURSIVE PyValue(_)
\* the Python object a loaded JSON value is, as the comparison engine reads it
PyValue(x) ==
    CASE x.t \in {"list", "tuple"} -> [i \in DOMAIN x.v |-> PyValue(x.v[i])]
      [] x.t = "dict" -> [k \in DOMAIN x.v |-> PyValue(x.v[k])]
      [] x.t = "None" -> None
      [] OTHER -> x.v

\* a loaded snapshot as ComparisonEngine.compare receives it
Loaded(snap) ==
    [snap EXCEPT !.results =
        [n \in DOMAIN snap.results |->
            [snap.results[n] EXCEPT !.data = PyValue(snap.results[n].data)]]]

\* cmd_diff without a file argument: the entry the loop appends for one
\* filepath, <<>> when it appends none (snap1 and snap2 are truthy unless None)
DiffEntry(fs, name1, name2, filepath, order) ==
    LET s1 == load(fs, name1, filepath)
        s2 == load(fs, name2, filepath)
    IN  IF s1 # None /\ s2 # None
        THEN IF compare(Loaded(s1), Loaded(s2), order).has_differences
             THEN <<[filepath |-> filepath, status |-> "changed"]>>
             ELSE <<>>
        ELSE IF s1 # None
        THEN <<[filepath |-> filepath, status |-> "removed"]>>
        ELSE <<[filepath |-> filepath, status |-> "added"]>>

\* the files cmd_diff goes through: set(list_files(name1)) | set(list_files(name2))
AllFiles(fs, ds, name1, name2) ==
    (IF name1 \in ds THEN Range(list_files(fs, name1)) ELSE {})
        \cup (IF name2 \in ds THEN Range(list_files(fs, name2)) ELSE {})

\* cmd_diff(name1, name2) without a file argument.  An exception of load
\* ends the command; otherwise it returns 0 and comparisons holds the
\* appended entries (a set here: their order, that of sorted(), is not kept).
cmd_diff(fs, ds, name1, name2, order) ==
    LET all_files == AllFiles(fs, ds, name1, name2)
        raising == {f \in all_files :
                       \/ "py_raise" \in DOMAIN load(fs, name1, f)
                       \/ "py_raise" \in DOMAIN load(fs, name2, f)}
    IN  IF raising # {} THEN Raised("AttributeError")
        ELSE [code |-> 0,
              comparisons |->
                  UNION {Range(DiffEntry(fs, name1, name2, f, order)) :
                             f \in all_files}]

\* the diff command on a database
Diff(name1, name2, order) ==
    /\ lastOp' = [op |-> "diff", name1 |-> name1, name2 |-> name2,
                  ret |-> cmd_diff(files, dirs, name1, name2, order)]
    /\ UNCHANGED <<files, dirs, registry, clock, cmpVars, capVars, anaVars, extVars>>

NextStore ==
    \/ \E name \in SetNames, snap \in StoreSnapshots \cup HeldSnapshots :
           Store(name, snap)
    \/ \E k \in DOMAIN files, content \in DamagedRecords : Corrupt(k, content)
    \/ \E name \in SetNames, filepath \in StorePaths : Load(name, filepath)
    \/ \E name \in SetNames : ListFiles(name)
    \/ \E name \in SetNames : DeleteSnapshot(name)

SpecStore == InitStore /\ [][NextStore]_vars

\* the snapshots of the sets the diff command is run on
DiffSnapshots ==
    {Captured(p, 100, r) : p \in {<<"/", "a">>, <<"/", "l", "s">>},
                           r \in StoreResults}

\* named sets are stored, then compared by the diff command
NextDiff ==
    \/ \E name \in SetNames, snap \in DiffSnapshots : Store(name, snap)
    \/ \E name1 \in SetNames, name2 \in SetNames, order \in HashOrders :
           Diff(name1, name2, order)

SpecDiff == InitStore /\ [][NextDiff]_vars

----------------------------------------------------------------------------
(* Properties of the store *)

RECURSIVE IsJsonValue(_)
\* a Python value built from JSON values: no tuple in it
IsJsonValue(x) ==
    CASE x.t \in {"None", "bool", "int", "str"} -> TRUE
      [] x.t = "tuple" -> FALSE
      [] x.t = "list" -> \A i \in DOMAIN x.v : IsJsonValue(x.v[i])
      [] x.t = "dict" -> \A k \in DOMAIN x.v : IsJsonValue(x.v[k])

\* C1: load(name, S.filepath) right after store(name, S) returns a snapshot
\* whose results have the keys of S.results and, for each key, the same
\* success, data, error and truncated, when the data of S are JSON values.
C1_RoundTrip ==
    (/\ lastOp.op = "load"
     /\ lastOp.justStored # None
     /\ DOMAIN lastOp.justStored.results # {}
     /\ \A n \in DOMAIN lastOp.justStored.results :
            IsJsonValue(lastOp.justStored.results[n].data)) =>
        /\ lastOp.ret # None
        /\ DOMAIN lastOp.ret.results = DOMAIN lastOp.justStored.results
        /\ \A n \in DOMAIN lastOp.justStored.results :
               LET a == lastOp.justStored.results[n]
                   b == lastOp.ret.results[n]
               IN  /\ b.success = a.success
                   /\ b.data = a.data
                   /\ b.error = a.error
                   /\ b.truncated = a.truncated

C1_Witness ==
    /\ lastOp.op = "load"
    /\ lastOp.justStored # None
    /\ DOMAIN lastOp.justStored.results = {"what", "custom"}
    /\ lastOp.justStored.results["custom"].truncated
    /\ lastOp.justStored.results["what"].error # NoneStr
    /\ clock = MaxOps

\* the record file does not hold a snapshot record
IsDamaged(content) ==
    \/ content.j = NotJson.j
    \/ FromDictError(JsonLoad(content)) # NoneStr

\* the filepaths of the snapshots stored under a name, read from the records
StoredPaths(name) ==
    {JsonLoad(files[k]).v.filepath.v :
        k \in {f \in FilesOf(files, name) : ~IsDamaged(files[f])}}

\* C10: the inverse mapping applied to the storage path of a stored
\* snapshot gives its filepath back, and after any sequence of store calls
\* list_files(name) returns exactly the filepaths of the snapshots stored
\* under name.
C10_PathRoundTrip ==
    /\ lastOp.op = "list_files" =>
           Range(lastOp.ret) = StoredPaths(lastOp.name)
    /\ \A k \in DOMAIN files :
           ~IsDamaged(files[k]) =>
               _relpath_to_filepath(k[2]) = JsonLoad(files[k]).v.filepath.v

\* what load returned is a snapshot (not None)
IsSnapshot(x) == "filepath" \in DOMAIN x

C16_CorruptionIsAbsence ==
    lastOp.op = "load" =>
        LET k == <<lastOp.name, _filepath_to_relpath(lastOp.filepath)>>
        IN  /\ "py_raise" \notin DOMAIN lastOp.ret
            /\ (k \in DOMAIN files /\ IsDamaged(files[k])) => lastOp.ret = None

\* C17: store sets the name of a snapshot object once; over any sequence of
\* store calls on the same object the name, once assigned, does not change,
\* and no other field of the object changes.
C17_NameSetOnce ==
    lastOp.op = "store" =>
        /\ lastOp.before # NoneStr => lastOp.snap.name = lastOp.before
        /\ \E s \in StoreSnapshots : lastOp.snap = [s EXCEPT !.name = lastOp.snap.name]

----------------------------------------------------------------------------
(* analyzers.py: the text of a command output.  An output is the sequence  *)
(* of its lines (splitlines) and a line is the sequence of its tokens      *)
(* (line.split()); a blank line is <<>>.  A token is a TLA+ string.  The   *)
(* text of a stripped line is its tokens joined by one space.              *)

Chars(s) == {SubSeq(s, i, i) : i \in 1..Len(s)}

\* m in s
Contains(s, m) ==
    \E i \in 1..(Len(s) - Len(m) + 1) : SubSeq(s, i, i + Len(m) - 1) = m

\* s.startswith(p), s.endswith(p)
StartsWith(s, p) == Len(s) >= Len(p) /\ SubSeq(s, 1, Len(p)) = p
EndsWith(s, p) == Len(s) >= Len(p) /\ SubSeq(s, Len(s) - Len(p) + 1, Len(s)) = p

DigitChars == Chars("0123456789")
\* the class [0-9a-fA-Fx] of the section pattern
HexChars == Chars("0123456789abcdefABCDEFx")
\* the class \w
WordChars ==
    Chars("abcdefghijklmnopqrstuvwxyzABCDEFGHIJKLMNOPQRSTUVWXYZ0123456789_")

\* s.isdigit()
IsDigit(s) == s # "" /\ Chars(s) \subseteq DigitChars

DigitValue(c) == CHOOSE d \in 0..9 : ToString(d) = c

RECURSIVE ParseInt(_)
\* int(s) for a string of digits
ParseInt(s) ==
    IF Len(s) = 1 THEN DigitValue(s)
    ELSE 10 * ParseInt(SubSeq(s, 1, Len(s) - 1))
             + DigitValue(SubSeq(s, Len(s), Len(s)))

\* the stripped line as a str
LineText(parts) == Join(parts, " ")

\* m in line, for a marker m without white space
InLine(m, line) == \E i \in DOMAIN line : Contains(line[i], m)

----------------------------------------------------------------------------
(* analyzers.py: WhatAnalyzer._parse_output *)

\* the parser without the test of the header lines
WhatParseKeepHeadersMutant(output) ==
    LET kept == SelectSeq(output, LAMBDA line : line # <<>>)
    IN  [i \in DOMAIN kept |-> LineText(kept[i])]

RECURSIVE What_parse_output(_)
What_parse_output(output) ==
    IF output = <<>> THEN <<>>
    ELSE LET line == Head(output)
         IN  IF line # <<>> /\ ~EndsWith(line[Len(line)], ":")
             THEN <<LineText(line)>> \o What_parse_output(Tail(output))
             ELSE What_parse_output(Tail(output))

----------------------------------------------------------------------------
(* analyzers.py: DumpHeadersAnalyzer._parse_output and _parse_aix_format *)

SectionKeys == <<"index", "name", "size", "vma", "lma", "file_offset">>

\* the dict built from a row of the table: the fields after index and name
\* are taken from the tokens that are there
TableSection(parts) ==
    LET n == IF Len(parts) < Len(SectionKeys) THEN Len(parts) ELSE Len(SectionKeys)
    IN  [k \in {SectionKeys[i] : i \in 1..n} |->
            IF k = "index" THEN ParseInt(parts[1])
            ELSE parts[CHOOSE i \in 1..n : SectionKeys[i] = k]]

RECURSIVE ParseTable(_, _)
\* the loop of _parse_output over the lines, with in_section_table
ParseTable(lines, in_section_table) ==
    IF lines = <<>> THEN <<>>
    ELSE LET line == Head(lines)
         IN  IF line = <<>> THEN ParseTable(Tail(lines), in_section_table)
             ELSE IF InLine("Idx", line) /\ InLine("Name", line)
             THEN ParseTable(Tail(lines), TRUE)
             ELSE IF in_section_table /\ Len(line) >= 2 /\ IsDigit(line[1])
             THEN <<TableSection(line)>> \o ParseTable(Tail(lines), in_section_table)
             ELSE ParseTable(Tail(lines), in_section_table)

RECURSIVE TokensFrom(_, _)
\* the tokens of the output from line l on, each with the number of its line
TokensFrom(lines, l) ==
    IF l > Len(lines) THEN <<>>
    ELSE [i \in DOMAIN lines[l] |-> [tok |-> lines[l][i], line |-> l]]
             \o TokensFrom(lines, l + 1)

\* (\.\w+|\w+) followed by white space: the whole token
IsSectionName(s) ==
    LET w == IF StartsWith(s, ".") THEN SubSeq(s, 2, Len(s)) ELSE s
    IN  w # "" /\ Chars(w) \subseteq WordChars

\* ([0-9a-fA-Fx]+) followed by white space: the whole token
IsHex(s) == s # "" /\ Chars(s) \subseteq HexChars

RECURSIVE HexPrefix(_)
\* ([0-9a-fA-Fx]+) at the end of the pattern: the longest prefix of the token
HexPrefix(s) ==
    IF s # "" /\ SubSeq(s, 1, 1) \in HexChars
    THEN SubSeq(s, 1, 1) \o HexPrefix(SubSeq(s, 2, Len(s)))
    ELSE ""

RECURSIVE AixScan(_, _)
\* section_pattern.finditer(output) from the start of line l.  The pattern
\* is anchored at the start of a line (MULTILINE) and \s matches a line
\* break, so its four tokens may lie on several lines; the scan goes on
\* after the line on which a match ends.
AixScan(lines, l) ==
    IF l > Len(lines) THEN <<>>
    ELSE LET toks == TokensFrom(lines, l)
         IN  IF /\ lines[l] # <<>>
                /\ Len(toks) >= 4
                /\ IsDigit(toks[1].tok)
                /\ IsSectionName(toks[2].tok)
                /\ IsHex(toks[3].tok)
                /\ HexPrefix(toks[4].tok) # ""
             THEN <<[index |-> ParseInt(toks[1].tok),
                     name |-> toks[2].tok,
                     size |-> toks[3].tok,
                     address |-> HexPrefix(toks[4].tok)]>>
                      \o AixScan(lines, toks[4].line + 1)
             ELSE AixScan(lines, l + 1)

\* DumpHeadersAnalyzer._parse_aix_format
_parse_aix_format(output) == AixScan(output, 1)

\* both passes contribute to the result
ParseOutputMergedMutant(output) ==
    ParseTable(output, FALSE) \o _parse_aix_format(output)

\* DumpHeadersAnalyzer._parse_output
DumpHeaders_parse_output(output) ==
    LET sections == ParseTable(output, FALSE)
    IN  IF sections = <<>> THEN _parse_aix_format(output) ELSE sections

----------------------------------------------------------------------------
(* analyzers.py: DumpLoaderAnalyzer._parse_output *)

\* the fields _extract_symbol_name never takes for a name
StructuralTokens == {"IMP", "EXP", "EXTref", "SECdef", "DS"}

RECURSIVE _extract_symbol_name(_)
\* the scan for part in reversed(parts); NoneStr when no token is left
_extract_symbol_name(parts) ==
    IF parts = <<>> THEN NoneStr
    ELSE LET part == parts[Len(parts)]
             rest == SubSeq(parts, 1, Len(parts) - 1)
         IN  IF \/ part \in StructuralTokens
                \/ StartsWith(part, "0x")
                \/ StartsWith(part, "[")
                \/ IsDigit(part)
             THEN _extract_symbol_name(rest)
             ELSE IF part # "" /\ ~StartsWith(part, ".")
             THEN part
             ELSE _extract_symbol_name(rest)

RECURSIVE _extract_address(_)
_extract_address(parts) ==
    IF parts = <<>> THEN NoneStr
    ELSE IF StartsWith(Head(parts), "0x") THEN Head(parts)
    ELSE _extract_address(Tail(parts))

HasImportMarker(line) == InLine("IMP", line) \/ InLine("EXTref", line)
HasExportMarker(line) == InLine("EXP", line) \/ InLine("SECdef", line)

\* the export branch is tried first
LoaderStepExportFirstMutant(acc, line) ==
    LET name == _extract_symbol_name(line)
    IN  IF line = <<>> \/ Len(line) < 4 THEN acc
        ELSE IF HasExportMarker(line)
        THEN IF name = NoneStr THEN acc
             ELSE [acc EXCEPT !.exports = Append(@,
                      [name |-> name, type |-> "EXP",
                       address |-> _extract_address(line),
                       raw |-> LineText(line)])]
        ELSE IF HasImportMarker(line)
        THEN IF name = NoneStr THEN acc
             ELSE [acc EXCEPT !.imports = Append(@,
                      [name |-> name, type |-> "IMP", raw |-> LineText(line)])]
        ELSE acc

\* the body of the loop of _parse_output for one line
LoaderStep(acc, line) ==
    LET name == _extract_symbol_name(line)
    IN  IF line = <<>> \/ Len(line) < 4 THEN acc
        ELSE IF HasImportMarker(line)
        THEN IF name = NoneStr THEN acc
             ELSE [acc EXCEPT !.imports = Append(@,
                      [name |-> name, type |-> "IMP", raw |-> LineText(line)])]
        ELSE IF HasExportMarker(line)
        THEN IF name = NoneStr THEN acc
             ELSE [acc EXCEPT !.exports = Append(@,
                      [name |-> name, type |-> "EXP",
                       address |-> _extract_address(line),
                       raw |-> LineText(line)])]
        ELSE acc

RECURSIVE LoaderLoop(_, _)
LoaderLoop(lines, acc) ==
    IF lines = <<>> THEN acc
    ELSE LoaderLoop(Tail(lines), LoaderStep(acc, Head(lines)))

\* DumpLoaderAnalyzer._parse_output: the pair (imports, exports)
DumpLoader_parse_output(output) ==
    LoaderLoop(output, [imports |-> <<>>, exports |-> <<>>])

----------------------------------------------------------------------------
(* analyzers.py: analyze.  run is the behaviour of the external commands:  *)
(* for each command line what subprocess.run does with it.  An analyze     *)
(* call gives its result and the command lines it ran.                     *)

Commands == {"what", "dump -h", "dump -Tv", "dump -T"}

\* subprocess.CompletedProcess; stderr is given stripped
Completed(returncode, stdout, stderr) ==
    [kind |-> "completed", returncode |-> returncode, stdout |-> stdout,
     stderr |-> stderr]
\* subprocess.TimeoutExpired
TimeoutExpired == [kind |-> "timeout"]
\* any other exception of subprocess.run, such as FileNotFoundError
RunError(msg) == [kind |-> "error", msg |-> msg]

\* SnapshotManager.timeout
Timeout == 300

\* a failed result: data is the default empty dict
FailedResult(name, error) == AnalysisResult(name, FALSE, PyDict(<<>>), error, FALSE)

\* result.stderr.strip() or f"Exit code {result.returncode}"
ExitError(r) ==
    IF r.stderr # "" THEN r.stderr ELSE "Exit code " \o ToString(r.returncode)

\* the except clauses of analyze
Caught(name, r) ==
    IF r.kind = "timeout"
    THEN FailedResult(name, "Timeout after " \o ToString(Timeout) \o "s")
    ELSE FailedResult(name, r.msg)

\* lists and dicts of the parsers as Python values
PyStrings(l) == PyList([i \in DOMAIN l |-> PyStr(l[i])])
PySection(s) ==
    PyDict([k \in DOMAIN s |-> IF k = "index" THEN PyInt(s[k]) ELSE PyStr(s[k])])
PySymbol(s) == PyDict([k \in DOMAIN s |-> OptStr(s[k])])
PySections(l) == PyList([i \in DOMAIN l |-> PySection(l[i])])
PySymbols(l) == PyList([i \in DOMAIN l |-> PySymbol(l[i])])

\* WhatAnalyzer.analyze
What_analyze(run) ==
    LET r == run["what"]
        strings == What_parse_output(r.stdout)
    IN  [commands |-> <<"what">>,
         result |->
            IF r.kind # "completed" THEN Caught("what", r)
            ELSE IF r.returncode # 0 /\ r.stdout = <<>>
            THEN FailedResult("what", ExitError(r))
            ELSE AnalysisResult("what", TRUE,
                     PyDict([strings |-> PyStrings(strings),
                             count |-> PyInt(Len(strings))]),
                     NoneStr, FALSE)]

\* DumpHeadersAnalyzer.analyze
DumpHeaders_analyze(run) ==
    LET r == run["dump -h"]
        sections == DumpHeaders_parse_output(r.stdout)
    IN  [commands |-> <<"dump -h">>,
         result |->
            IF r.kind # "completed" THEN Caught("dump-h", r)
            ELSE IF r.returncode # 0
            THEN FailedResult("dump-h", ExitError(r))
            ELSE AnalysisResult("dump-h", TRUE,
                     PyDict([sections |-> PySections(sections),
                             count |-> PyInt(Len(sections)),
                             raw |-> PyStr(r.stdout)]),
                     NoneStr, FALSE)]

\* DumpLoaderAnalyzer.analyze
DumpLoader_analyze(run) ==
    LET r == run["dump -Tv"]
        parsed == DumpLoader_parse_output(r.stdout)
    IN  [commands |-> <<"dump -Tv">>,
         result |->
            IF r.kind # "completed" THEN Caught("dump-T", r)
            ELSE IF r.returncode # 0
            THEN FailedResult("dump-T", ExitError(r))
            ELSE AnalysisResult("dump-T", TRUE,
                     PyDict([imports |-> PySymbols(parsed.imports),
                             exports |-> PySymbols(parsed.exports),
                             import_count |-> PyInt(Len(parsed.imports)),
                             export_count |-> PyInt(Len(parsed.exports)),
                             raw |-> PyStr(r.stdout)]),
                     NoneStr, FALSE)]

----------------------------------------------------------------------------
(* analyzers.py: the registry.  _ANALYZERS is a dict from name to analyzer *)
(* instance; an instance is determined by its name, so the registry is the *)
(* sequence of its keys in insertion order.                                *)

\* register_analyzer
register_analyzer(reg, name) ==
    IF name \in Range(reg) THEN reg ELSE Append(reg, name)

\* get_all_analyzers: the registry after the call, which is what it returns
get_all_analyzers(reg) ==
    IF reg = <<>>
    THEN register_analyzer(register_analyzer(register_analyzer(reg,
             "what"), "dump-h"), "dump-T")
    ELSE reg

\* analyze of an analyzer registered beside the built-in ones: it catches
\* nothing, so what its command raises escapes from analyze
Custom_analyze(run) ==
    LET r == run["custom"]
    IN  IF r.kind = "completed"
        THEN [commands |-> <<"custom">>,
              result |-> AnalysisResult("custom", r.returncode = 0,
                                        PyDict(<<>>), NoneStr, FALSE)]
        ELSE [commands |-> <<"custom">>,
              raised |-> IF r.kind = "timeout" THEN "timed out" ELSE r.msg]

\* analyzer.analyze(filepath, timeout) of the analyzer registered as name
Analyze(name, run) ==
    CASE name = "what" -> What_analyze(run)
      [] name = "dump-h" -> DumpHeaders_analyze(run)
      [] name = "dump-T" -> DumpLoader_analyze(run)
      [] OTHER -> Custom_analyze(run)

----------------------------------------------------------------------------
(* core.py: SnapshotManager.capture, called by cmd_snapshot of cli.py *)

\* an Optional[List[str]] argument that is a list
ListArg(l) == [list |-> l]

\* bool(x) for x an Optional[List[str]]
TruthyList(x) == x # None /\ x.list # <<>>

RECURSIVE ComprehensionKeys(_, _)
\* the keys of {n: ... for n in names}, in insertion order
ComprehensionKeys(names, acc) ==
    IF names = <<>> THEN acc
    ELSE ComprehensionKeys(Tail(names),
             IF Head(names) \in Range(acc) THEN acc ELSE Append(acc, Head(names)))

\* the keys of selected, in iteration order
SelectAnalyzers(all_analyzers, analyzers, exclude) ==
    LET included ==
            IF TruthyList(analyzers)
            THEN ComprehensionKeys(
                     SelectSeq(analyzers.list, LAMBDA n : n \in Range(all_analyzers)),
                     <<>>)
            ELSE all_analyzers
    IN  IF TruthyList(exclude)
        THEN SelectSeq(included, LAMBDA n : n \notin Range(exclude.list))
        ELSE included

\* an exception that escapes analyze ends the loop body with no entry
CaptureStepNoCatchMutant(snap, name, run) ==
    LET outcome == Analyze(name, run)
    IN  IF "raised" \in DOMAIN outcome THEN snap
        ELSE [snap EXCEPT !.results = DictSet(@, name, outcome.result)]

\* the body of the loop of capture for one analyzer
CaptureStep(snap, name, run) ==
    LET outcome == Analyze(name, run)
        entry == IF "raised" \in DOMAIN outcome
                 THEN FailedResult(name, outcome.raised)
                 ELSE outcome.result
    IN  [snap EXCEPT !.results = DictSet(@, name, entry)]

\* the snapshot with results as the mapping to_dict reads
Plain(snap) == [snap EXCEPT !.results = snap.results.val]

----------------------------------------------------------------------------
(* The snapshot command: cmd_snapshot captures each file of args.files and *)
(* stores the snapshot when args.store is given.  analyzers and exclude    *)
(* are the lists capture is given; a file of args.files is valid, is       *)
(* skipped by the command (missing, or not valid), or vanishes between the *)
(* validation and the stat of capture.                                     *)

Programs == Commands \cup {"custom"}

WhatOutput == <<<<"/a:">>, <<"@(#)", "v1">>>>
HeadersOutput == <<<<"Idx", "Name", "Size">>, <<"0", ".text", "10">>>>
LoaderOutput == <<<<"[1]", "0x10", ".text", "EXP", "DS", "SECdef", "main">>>>

\* every command succeeds
AllOk ==
    [c \in Programs |->
        CASE c = "what" -> Completed(0, WhatOutput, "")
          [] c = "dump -h" -> Completed(0, HeadersOutput, "")
          [] c \in {"dump -Tv", "dump -T"} -> Completed(0, LoaderOutput, "")
          [] OTHER -> Completed(0, <<>>, "")]

CaptureTools ==
    {AllOk,
     [AllOk EXCEPT !["what"] = TimeoutExpired, !["custom"] = RunError("boom")],
     [AllOk EXCEPT !["dump -h"] = Completed(1, <<>>, "bad magic"),
                   !["dump -Tv"] = RunError("No such file or directory: 'dump'"),
                   !["custom"] = TimeoutExpired]}

InclusionLists ==
    {None, ListArg(<<>>), ListArg(<<"dump-T", "what">>), ListArg(<<"nope">>),
     ListArg(<<"what", "nope", "what">>)}

ExclusionLists == {None, ListArg(<<"dump-h">>), ListArg(<<"what", "nope">>)}

File(path, kind) == [path |-> path, kind |-> kind]

\* the working directory of the commands, and a symbolic link to /a
Cwd == <<"/", "w">>
LinkPath == <<"/", "l", "n">>
LinkTarget == <<"/", "a">>

\* str(Path(filepath)): a leading "./" is dropped
PathStr(filepath) ==
    IF Len(filepath) > 2 /\ SubSeq(filepath, 1, 2) = <<".", "/">>
    THEN SubSeq(filepath, 3, Len(filepath))
    ELSE filepath

\* str(Path(filepath).resolve()): a relative path is joined to the working
\* directory, a symbolic link is replaced by its target
Resolve(filepath) ==
    LET absolute == IF filepath[1] = "/" THEN filepath
                    ELSE Cwd \o <<"/">> \o filepath
    IN  IF absolute = LinkPath THEN LinkTarget ELSE absolute

FileLists ==
    {<<File(<<"/", "a">>, "valid")>>,
     <<File(<<"/", "a">>, "valid"), File(<<"/", "l", "s">>, "valid")>>,
     <<File(<<"/", "a">>, "valid"), File(<<"/", "l", "s">>, "vanishing")>>,
     <<File(<<"/", "l", "s">>, "missing"), File(<<"/", "a">>, "valid")>>,
     <<File(<<".", "/", "a">>, "valid")>>,
     <<File(<<"a">>, "valid"), File(<<"/", "a">>, "valid")>>,
     <<File(LinkPath, "valid")>>}

InitCapture ==
    /\ _ANALYZERS = <<>>
    /\ args \in [analyzers : InclusionLists, exclude : ExclusionLists,
                 files : FileLists, store : {NoneStr, "v1"}]
    /\ tool \in CaptureTools
    /\ capPc = "init"
    /\ fileIdx = 1
    /\ selected = <<>>
    /\ capSnapshot = None
    /\ runLog = <<>>
    /\ analysis = None
    /\ ExtIdle
    /\ files = <<>>
    /\ dirs = {}
    /\ registry = [exists |-> FALSE, rows |-> <<>>]
    /\ clock = 0
    /\ lastOp = [op |-> "none"]
    /\ snap1 = None
    /\ snap2 = None
    /\ hashOrder = <<>>
    /\ pc = "capture"
    /\ result = None
    /\ reverse = None
    /\ selfres = None

\* register_analyzer(analyzer) called by the embedding program
RegisterAnalyzer(name) ==
    /\ capPc = "init"
    /\ name \notin Range(_ANALYZERS)
    /\ _ANALYZERS' = register_analyzer(_ANALYZERS, name)
    /\ UNCHANGED <<args, capPc, fileIdx, selected, capSnapshot, runLog,
                   cmpVars, storeVars, anaVars, extVars>>

\* get_all_analyzers() called before the command
GetAllAnalyzers ==
    /\ capPc = "init"
    /\ _ANALYZERS = <<>>
    /\ _ANALYZERS' = get_all_analyzers(_ANALYZERS)
    /\ UNCHANGED <<args, capPc, fileIdx, selected, capSnapshot, runLog,
                   cmpVars, storeVars, anaVars, extVars>>

\* cmd_snapshot enters its loop
StartSnapshot ==
    /\ capPc = "init"
    /\ capPc' = "loop"
    /\ UNCHANGED <<_ANALYZERS, args, fileIdx, selected, capSnapshot, runLog,
                   cmpVars, storeVars, anaVars, extVars>>

\* cmd_snapshot: the file does not exist or is not valid: continue
SkipFile ==
    /\ capPc = "loop"
    /\ fileIdx <= Len(args.files)
    /\ args.files[fileIdx].kind \in {"missing", "invalid"}
    /\ fileIdx' = fileIdx + 1
    /\ UNCHANGED <<_ANALYZERS, args, capPc, selected, capSnapshot, runLog,
                   cmpVars, storeVars, anaVars, extVars>>

\* capture: path.stat() raises; main catches the exception and returns 1
CaptureRaises ==
    /\ capPc = "loop"
    /\ fileIdx <= Len(args.files)
    /\ args.files[fileIdx].kind = "vanishing"
    /\ capPc' = "raised"
    /\ UNCHANGED <<_ANALYZERS, args, fileIdx, selected, capSnapshot, runLog,
                   cmpVars, storeVars, anaVars, extVars>>

\* capture up to its loop: stat, validation, selection of the analyzers
CaptureBegin ==
    /\ capPc = "loop"
    /\ fileIdx <= Len(args.files)
    /\ args.files[fileIdx].kind = "valid"
    /\ _ANALYZERS' = get_all_analyzers(_ANALYZERS)
    /\ selected' = SelectAnalyzers(_ANALYZERS', args.analyzers, args.exclude)
    /\ capSnapshot' = Captured(Resolve(PathStr(args.files[fileIdx].path)), 100,
                               EmptyDict)
    /\ runLog' = <<>>
    /\ capPc' = "running"
    /\ UNCHANGED <<args, fileIdx, cmpVars, storeVars, anaVars, extVars>>

\* capture: one turn of the loop over selected.items()
RunAnalyzer ==
    /\ capPc = "running"
    /\ Len(runLog) < Len(selected)
    /\ LET name == selected[Len(runLog) + 1]
       IN  /\ capSnapshot' = CaptureStep(capSnapshot, name, tool)
           /\ runLog' = Append(runLog, name)
    /\ UNCHANGED <<_ANALYZERS, args, capPc, fileIdx, selected,
                   cmpVars, storeVars, anaVars, extVars>>

\* the partial snapshot is stored when capture is interrupted
InterruptStoresPartialMutant ==
    /\ capPc = "running"
    /\ capPc' = "interrupted"
    /\ StoreCall("v1", Plain(capSnapshot))
    /\ UNCHANGED <<_ANALYZERS, args, fileIdx, selected, capSnapshot, runLog,
                   cmpVars, anaVars, extVars>>

\* KeyboardInterrupt during capture: it is no Exception, so it leaves
\* capture and cmd_snapshot; main returns 130
Interrupt ==
    /\ capPc = "running"
    /\ capPc' = "interrupted"
    /\ UNCHANGED <<_ANALYZERS, args, fileIdx, selected, capSnapshot, runLog,
                   cmpVars, storeVars, anaVars, extVars>>

\* capture returns the snapshot
CaptureReturn ==
    /\ capPc = "running"
    /\ Len(runLog) = Len(selected)
    /\ capPc' = "returned"
    /\ UNCHANGED <<_ANALYZERS, args, fileIdx, selected, capSnapshot, runLog,
                   cmpVars, storeVars, anaVars, extVars>>

\* cmd_snapshot after capture: store the snapshot if requested, next file
StoreCaptured ==
    /\ capPc = "returned"
    /\ IF args.store # NoneStr
       THEN /\ StoreCall(args.store, Plain(capSnapshot))
            /\ capSnapshot' = [capSnapshot EXCEPT !.name = args.store]
       ELSE UNCHANGED <<storeVars, capSnapshot>>
    /\ capPc' = "loop"
    /\ fileIdx' = fileIdx + 1
    /\ UNCHANGED <<_ANALYZERS, args, selected, runLog, cmpVars, anaVars, extVars>>

\* cmd_snapshot leaves its loop and returns
FinishSnapshot ==
    /\ capPc = "loop"
    /\ fileIdx > Len(args.files)
    /\ capPc' = "done"
    /\ UNCHANGED <<_ANALYZERS, args, fileIdx, selected, capSnapshot, runLog,
                   cmpVars, storeVars, anaVars, extVars>>

\* cmd_compare with file1 = the i-th file of the snapshot command and
\* --against args.store, run after the snapshot command has returned: the
\* lookup of the stored snapshot
CompareAgainst(i) ==
    /\ capPc = "done"
    /\ args.store # NoneStr
    /\ i \in DOMAIN args.files
    /\ args.files[i].kind = "valid"
    /\ against' = [file1 |-> args.files[i].path, name |-> args.store,
                   ret |-> load(files, args.store, PathStr(args.files[i].path))]
    /\ UNCHANGED <<valVars, writer, cmpVars, storeVars, capVars, anaVars>>

NextCapture ==
    \/ \E i \in 1..2 : CompareAgainst(i)
    \/ RegisterAnalyzer("custom")
    \/ GetAllAnalyzers
    \/ StartSnapshot
    \/ SkipFile
    \/ CaptureRaises
    \/ CaptureBegin
    \/ RunAnalyzer
    \/ Interrupt
    \/ CaptureReturn
    \/ StoreCaptured
    \/ FinishSnapshot

SpecCapture == InitCapture /\ [][NextCapture]_vars

----------------------------------------------------------------------------
(* Properties of capture and of the snapshot command *)

\* a list argument that is given (not None), as the set of its names
Given(x) == x # None
NamesIn(x) == IF Given(x) THEN Range(x.list) ELSE {}

\* C12: the analyzers capture runs are exactly those named in (the inclusion
\* list intersected with the registry when an inclusion list is given, the
\* empty list included; otherwise the whole registry) minus the names of
\* the exclusion list; unknown names are dropped without an error.
C12_Selection ==
    capPc = "returned" =>
        /\ Range(runLog) =
               (IF Given(args.analyzers)
                THEN NamesIn(args.analyzers) \cap Range(_ANALYZERS)
                ELSE Range(_ANALYZERS)) \ NamesIn(args.exclude)
        /\ Len(runLog) = Cardinality(Range(runLog))

\* C13: the selected analyzers are run, and their entries inserted in
\* results, in the insertion order of the registry, whatever the order of
\* the names in the inclusion list.
C13_RegistryOrder ==
    capPc = "returned" =>
        /\ runLog = SelectSeq(_ANALYZERS, LAMBDA n : n \in Range(runLog))
        /\ capSnapshot.results.keys = runLog

\* the command lines of an analyzer
CommandsOf(name) ==
    CASE name = "what" -> {"what"}
      [] name = "dump-h" -> {"dump -h"}
      [] name = "dump-T" -> {"dump -Tv", "dump -T"}
      [] OTHER -> {name}

\* the commands of name as they are, those of the other analyzers succeeding
OthersSucceed(name) ==
    [c \in Programs |-> IF c \in CommandsOf(name) THEN tool[c] ELSE AllOk[c]]

\* the entry of name in a capture where no other analyzer fails
EntryAlone(name) ==
    CaptureStep(Captured(capSnapshot.filepath, 100, EmptyDict), name,
                OthersSucceed(name)).results.val[name]

\* C14: whatever each selected analyzer does, the snapshot capture returns
\* has exactly one entry per selected analyzer, keyed by its name; a timeout
\* is an entry with success = false and error "Timeout after Ns", an
\* escaping exception an entry with success = false and its message, and
\* the entries of the other analyzers are as if no failure had happened.
C14_FailureIsolation ==
    capPc = "returned" =>
        LET results == capSnapshot.results
        IN  /\ Range(results.keys) = Range(selected)
            /\ Len(results.keys) = Len(selected)
            /\ DOMAIN results.val = Range(selected)
            /\ \A n \in Range(selected) :
                   /\ results.val[n].analyzer_name = n
                   /\ results.val[n] = EntryAlone(n)
                   /\ (n = "what" /\ tool["what"].kind = "timeout") =>
                          /\ ~results.val[n].success
                          /\ results.val[n].error =
                                 "Timeout after " \o ToString(Timeout) \o "s"
                   /\ (n = "custom" /\ tool["custom"].kind = "error") =>
                          /\ ~results.val[n].success
                          /\ results.val[n].error = tool["custom"].msg

C14_Witness ==
    /\ capPc = "returned"
    /\ selected = <<"what", "dump-h", "dump-T", "custom">>
    /\ capSnapshot.results.val["what"].error = "Timeout after 300s"
    /\ capSnapshot.results.val["custom"].error = "boom"
    /\ ~capSnapshot.results.val["custom"].success
    /\ capSnapshot.results.val["dump-h"].success
    /\ capSnapshot.results.val["dump-T"].success

\* C15: store is attempted for a file only after the capture of that file
\* has returned a snapshot with an entry for every selected analyzer; a
\* capture that is interrupted or raises is followed by no store, and the
\* database is left as it was.
C15_NoPartialStore ==
    [][/\ storeVars' # storeVars =>
              /\ capPc = "returned"
              /\ Range(capSnapshot.results.keys) = Range(selected)
              /\ DOMAIN JsonLoad(files'[lastOp'.ret]).v.results.v = Range(selected)
       /\ capPc \in {"running", "interrupted", "raised"} =>
              storeVars' = storeVars
       /\ capPc \in {"interrupted", "raised"} => capPc' = capPc]_vars

C15_Witness ==
    /\ capPc = "interrupted"
    /\ fileIdx = 2
    /\ DOMAIN files # {}
    /\ runLog # <<>>
    /\ Len(runLog) < Len(selected)

----------------------------------------------------------------------------
(* The analyzers applied to the output of their commands *)

MaxLines == 3       \* longest command output, in lines

\* lines of dump -h outputs: a header row, rows of the table, a row with an
\* index only, a row with an index and a name, a blank line, a title, the
\* end of a row of the dense layout
HeaderLines ==
    {<<"Idx", "Name", "Size">>,
     <<"0", ".text", "10", "20">>,
     <<"1", ".text", "20", "2**4">>,
     <<"2">>,
     <<"3", ".bss">>,
     <<>>,
     <<"Section", "Headers">>,
     <<"ff", "1f">>}

\* lines of dump -Tv outputs: an import, an export, a line with both
\* markers, the same with three tokens, one with no name, one with no
\* marker, a blank line, an export whose name contains IMP, an export whose
\* name is not the last token, an export with no address
LoaderLines ==
    {<<"[0]", "0x00", "undef", "IMP", "DS", "EXTref", "printf">>,
     <<"[1]", "0x10", ".text", "EXP", "DS", "SECdef", "main">>,
     <<"[2]", "0x20", "IMP", "EXP", "foo">>,
     <<"IMP", "EXP", "foo">>,
     <<"[4]", "0x40", "IMP", "EXP">>,
     <<"a", "b", "c", "d">>,
     <<>>,
     <<"[3]", "0x30", "EXP", "SIMPLE">>,
     <<"[5]", "EXP", "bar", "0x50", "12">>,
     <<"[6]", "EXP", "DS", "baz">>}

WhatLines ==
    {<<"/a:">>, <<"@(#)", "v1">>, <<>>, <<"x:", "y">>, <<"lib", "libc.a:">>}

\* every command exits with 0 and prints nothing
Quiet == [c \in Commands |-> Completed(0, <<>>, "")]

\* the ways a command fails
Failures ==
    {Completed(1, <<>>, "bad magic"), Completed(2, <<>>, ""), TimeoutExpired,
     RunError("No such file or directory: 'dump'")}

AnalyzeTools ==
    {[Quiet EXCEPT !["dump -h"] = Completed(0, out, "")] :
        out \in SeqsUpTo(HeaderLines, MaxLines)}
    \cup {[Quiet EXCEPT !["dump -Tv"] = Completed(0, out, "")] :
             out \in SeqsUpTo(LoaderLines, MaxLines)}
    \cup {[Quiet EXCEPT !["what"] = Completed(rc, out, "")] :
             rc \in {0, 1}, out \in SeqsUpTo(WhatLines, MaxLines)}
    \cup {[Quiet EXCEPT !["what"] = f, !["dump -h"] = f] : f \in Failures}
    \cup {[Quiet EXCEPT !["dump -Tv"] = f, !["dump -T"] = g] :
             f \in Failures,
             g \in {Completed(0, LoaderOutput, ""),
                    Completed(1, <<>>, "no loader section"), TimeoutExpired}}

InitAnalyze ==
    /\ tool \in AnalyzeTools
    /\ analysis = None
    /\ ExtIdle
    /\ _ANALYZERS = <<>>
    /\ args = None
    /\ capPc = "idle"
    /\ fileIdx = 0
    /\ selected = <<>>
    /\ capSnapshot = None
    /\ runLog = <<>>
    /\ files = <<>>
    /\ dirs = {}
    /\ registry = [exists |-> FALSE, rows |-> <<>>]
    /\ clock = 0
    /\ lastOp = [op |-> "none"]
    /\ snap1 = None
    /\ snap2 = None
    /\ hashOrder = <<>>
    /\ pc = "analyze"
    /\ result = None
    /\ reverse = None
    /\ selfres = None

\* WhatAnalyzer().analyze(filepath)
AnalyzeWhat ==
    /\ analysis' = What_analyze(tool)
    /\ UNCHANGED <<tool, cmpVars, storeVars, capVars, extVars>>

\* DumpHeadersAnalyzer().analyze(filepath)
AnalyzeHeaders ==
    /\ analysis' = DumpHeaders_analyze(tool)
    /\ UNCHANGED <<tool, cmpVars, storeVars, capVars, extVars>>

\* DumpLoaderAnalyzer().analyze(filepath)
AnalyzeLoader ==
    /\ analysis' = DumpLoader_analyze(tool)
    /\ UNCHANGED <<tool, cmpVars, storeVars, capVars, extVars>>

NextAnalyze == AnalyzeWhat \/ AnalyzeHeaders \/ AnalyzeLoader

SpecAnalyze == InitAnalyze /\ [][NextAnalyze]_vars

----------------------------------------------------------------------------
(* Properties of the analyzers *)

\* the last call of analyze was that of the analyzer name
Analyzed(name) == analysis # None /\ analysis.result.analyzer_name = name

\* the command exited, with a zero or a non-zero status
ExitedZero(r) == r.kind = "completed" /\ r.returncode = 0
ExitedNonZero(r) == r.kind = "completed" /\ r.returncode # 0

\* the data of a successful loader analysis of the output out
LoaderDataOf(out) ==
    LET parsed == DumpLoader_parse_output(out)
    IN  PyDict([imports |-> PySymbols(parsed.imports),
                exports |-> PySymbols(parsed.exports),
                import_count |-> PyInt(Len(parsed.imports)),
                export_count |-> PyInt(Len(parsed.exports)),
                raw |-> PyStr(out)])

\* C18: the loader analyzer first runs the command with the verbose flag;
\* when that run exits non-zero it runs the command once more without the
\* flag, the result is a failure only when the second run exits non-zero
\* too, and a successful second run is parsed as the result.
C18_LoaderRetry ==
    Analyzed("dump-T") =>
        /\ analysis.commands[1] = "dump -Tv"
        /\ ExitedZero(tool["dump -Tv"]) => analysis.commands = <<"dump -Tv">>
        /\ ExitedNonZero(tool["dump -Tv"]) =>
               /\ analysis.commands = <<"dump -Tv", "dump -T">>
               /\ ExitedZero(tool["dump -T"]) =>
                      /\ analysis.result.success
                      /\ analysis.result.data = LoaderDataOf(tool["dump -T"].stdout)
               /\ ExitedNonZero(tool["dump -T"]) => ~analysis.result.success

\* the raw lines of a list of symbol entries of a result
RawLines(entries) == [i \in DOMAIN entries.v |-> entries.v[i].v.raw.v]

\* a line the parser records: at least four tokens, one of them a name
Recorded(line) == Len(line) >= 4 /\ _extract_symbol_name(line) # NoneStr

\* the text of the lines of a sequence of lines
TextOf(lines) == [i \in DOMAIN lines |-> LineText(lines[i])]

\* the recorded lines of out with an import marker, in the order of out
ImportLines(out) ==
    TextOf(SelectSeq(out, LAMBDA l : Recorded(l) /\ HasImportMarker(l)))

\* the recorded lines of out with an export marker and no import marker
ExportLines(out) ==
    TextOf(SelectSeq(out, LAMBDA l : /\ Recorded(l)
                                     /\ ~HasImportMarker(l)
                                     /\ HasExportMarker(l)))

IsHeaderRow(line) == InLine("Idx", line) /\ InLine("Name", line)

\* the numbers of the lines of out that are rows of the table layout: lines
\* after a header row, themselves no header row, with a decimal integer as
\* first token and a name as second
TableRows(out) ==
    SelectSeq([i \in 1..Len(out) |-> i],
              LAMBDA i : /\ \E h \in 1..(i - 1) : IsHeaderRow(out[h])
                         /\ ~IsHeaderRow(out[i])
                         /\ Len(out[i]) >= 2
                         /\ IsDigit(out[i][1]))

\* C20: when the table layout recovers at least one section the result is
\* exactly its rows, in first-seen order and with no de-duplication by name;
\* only when it recovers none is the result exactly the matches of the
\* dense-layout pattern over the whole output, in first-seen order; the two
\* strategies never both contribute, and an output without a header row
\* gives exactly the matches of the pattern.
C20_SectionStrategy ==
    (Analyzed("dump-h") /\ analysis.result.success) =>
        LET out == tool["dump -h"].stdout
            sections == analysis.result.data.v.sections.v
            rows == TableRows(out)
            matches == PySections(_parse_aix_format(out)).v
        IN  /\ rows # <<>> =>
                   /\ Len(sections) = Len(rows)
                   /\ \A k \in DOMAIN rows :
                          /\ sections[k].v.index.v = ParseInt(out[rows[k]][1])
                          /\ sections[k].v.name.v = out[rows[k]][2]
                          /\ "address" \notin DOMAIN sections[k].v
            /\ rows = <<>> => sections = matches
            /\ (\A i \in DOMAIN out : ~IsHeaderRow(out[i])) => sections = matches
            /\ analysis.result.data.v.count.v = Len(sections)

C20_Witness ==
    /\ Analyzed("dump-h")
    /\ analysis.result.success
    /\ tool["dump -h"].stdout =
           <<<<"Idx", "Name", "Size">>,
             <<"0", ".text", "10", "20">>,
             <<"1", ".text", "20", "2**4">>>>
    /\ Len(analysis.result.data.v.sections.v) = 2
    /\ analysis.result.data.v.sections.v[1].v.name.v = ".text"
    /\ analysis.result.data.v.sections.v[2].v.name.v = ".text"
    /\ analysis.result.data.v.sections.v[2].v.vma.v = "2**4"

\* the strings of the result of the what analyzer
StringsOf(res) == [i \in DOMAIN res.data.v.strings.v |-> res.data.v.strings.v[i].v]

\* C21: for any output of the what command, data.strings is the list, in
\* input order, of the trimmed non-empty lines that do not end with ":"; no
\* string ending with ":" and no empty string is in the list, and data.count
\* is the length of the list.
C21_WhatStrings ==
    (Analyzed("what") /\ analysis.result.success) =>
        LET out == tool["what"].stdout
            strings == StringsOf(analysis.result)
        IN  /\ strings = TextOf(SelectSeq(out,
                   LAMBDA l : LineText(l) # "" /\ ~EndsWith(LineText(l), ":")))
            /\ \A i \in DOMAIN strings :
                   strings[i] # "" /\ ~EndsWith(strings[i], ":")
            /\ analysis.result.data.v.count.v = Len(strings)

C21_Witness ==
    /\ Analyzed("what")
    /\ analysis.result.success
    /\ tool["what"].stdout = <<<<"/a:">>, <<"x:", "y">>, <<"lib", "libc.a:">>>>
    /\ StringsOf(analysis.result) = <<"x: y">>
    /\ analysis.result.data.v.count.v = 1

----------------------------------------------------------------------------
(* core.py: XCOFFValidator *)

(* A file is a record: whether it exists, whether it is readable, its size  *)
(* in bytes (st_size), whether reading it fails, and its first bytes (20,   *)
(* or all of them when the file is shorter), a sequence of numbers in       *)
(* 0..255.                                                                  *)

MAGIC_32 == 479     \* 0x01DF
MAGIC_64 == 503     \* 0x01F7
\* b"!<arch>\n"
AR_MAGIC == <<33, 60, 97, 114, 99, 104, 62, 10>>

ValidationResult(valid, file_type, error, details) ==
    [valid |-> valid, file_type |-> file_type, error |-> error,
     details |-> details]

\* struct.unpack(">H", ...) and struct.unpack(">I", ...) at offset i
U16(b, i) == b[i] * 256 + b[i + 1]
U32(b, i) == ((b[i] * 256 + b[i + 1]) * 256 + b[i + 2]) * 256 + b[i + 3]

\* f"0x{n:04X}" for n below 65536
HexDigit(d) == SubSeq("0123456789ABCDEF", d + 1, d + 1)
Hex4(n) ==
    "0x" \o HexDigit(n \div 4096) \o HexDigit((n \div 256) % 16)
         \o HexDigit((n \div 16) % 16) \o HexDigit(n % 16)

\* _validate_xcoff that stops at the first violated bound
ValidateXcoffFirstErrorMutant(header, file_size, file_type) ==
    LET nscns == U16(header, 3)
        symptr == U32(header, 9)
        opthdr == U16(header, 17)
        details == [magic |-> PyStr(Hex4(U16(header, 1))),
                    sections |-> PyInt(nscns),
                    timestamp |-> PyInt(U32(header, 5)),
                    symbol_table_offset |-> PyInt(symptr),
                    symbol_count |-> PyInt(U32(header, 13)),
                    optional_header_size |-> PyInt(opthdr),
                    flags |-> PyStr(Hex4(U16(header, 19))),
                    file_size |-> PyInt(file_size)]
    IN  IF nscns > 1000
        THEN ValidationResult(FALSE, file_type,
                 "Suspicious section count: " \o ToString(nscns), details)
        ELSE IF symptr > 0 /\ symptr > file_size
        THEN ValidationResult(FALSE, file_type,
                 "Symbol table offset beyond file size", details)
        ELSE IF opthdr > 1024
        THEN ValidationResult(FALSE, file_type,
                 "Suspicious optional header size: " \o ToString(opthdr), details)
        ELSE ValidationResult(TRUE, file_type, NoneStr, details)

_validate_xcoff(header, file_size, file_type) ==
    LET magic == U16(header, 1)
        nscns == U16(header, 3)
        timdat == U32(header, 5)
        symptr == U32(header, 9)
        nsyms == U32(header, 13)
        opthdr == U16(header, 17)
        flags == U16(header, 19)
        details == [magic |-> PyStr(Hex4(magic)),
                    sections |-> PyInt(nscns),
                    timestamp |-> PyInt(timdat),
                    symbol_table_offset |-> PyInt(symptr),
                    symbol_count |-> PyInt(nsyms),
                    optional_header_size |-> PyInt(opthdr),
                    flags |-> PyStr(Hex4(flags)),
                    file_size |-> PyInt(file_size)]
        errors ==
            (IF nscns > 1000
             THEN <<"Suspicious section count: " \o ToString(nscns)>> ELSE <<>>)
            \o (IF symptr > 0 /\ symptr > file_size
                THEN <<"Symbol table offset beyond file size">> ELSE <<>>)
            \o (IF opthdr > 1024
                THEN <<"Suspicious optional header size: " \o ToString(opthdr)>>
                ELSE <<>>)
    IN  IF errors # <<>>
        THEN ValidationResult(FALSE, file_type, Join(errors, "; "), details)
        ELSE ValidationResult(TRUE, file_type, NoneStr, details)

\* validate that looks at the first bytes before it looks at the size
ValidateSignatureFirstMutant(f) ==
    IF f.exists /\ f.readable /\ Len(f.head) >= 8
       /\ SubSeq(f.head, 1, 8) = AR_MAGIC
    THEN ValidationResult(TRUE, "archive", NoneStr,
                          [file_size |-> PyInt(f.st_size)])
    ELSE ValidationResult(FALSE, NoneStr,
                          "File too small: " \o ToString(f.st_size) \o " bytes",
                          [file_size |-> PyInt(f.st_size)])

\* XCOFFValidator.validate
validate(f) ==
    IF ~f.exists
    THEN ValidationResult(FALSE, NoneStr, "File not found: " \o f.path, <<>>)
    ELSE IF ~f.readable
    THEN ValidationResult(FALSE, NoneStr, "File not readable: " \o f.path, <<>>)
    ELSE IF f.st_size < 20
    THEN ValidationResult(FALSE, NoneStr,
                          "File too small: " \o ToString(f.st_size) \o " bytes",
                          [file_size |-> PyInt(f.st_size)])
    ELSE IF f.ioerror # NoneStr
    THEN ValidationResult(FALSE, NoneStr, "I/O error: " \o f.ioerror, <<>>)
    ELSE LET header == f.head
             magic == U16(header, 1)
         IN  IF SubSeq(header, 1, 8) = AR_MAGIC
             THEN ValidationResult(TRUE, "archive", NoneStr,
                                   [file_size |-> PyInt(f.st_size)])
             ELSE IF magic = MAGIC_32
             THEN _validate_xcoff(header, f.st_size, "xcoff32")
             ELSE IF magic = MAGIC_64
             THEN _validate_xcoff(header, f.st_size, "xcoff64")
             ELSE ValidationResult(FALSE, NoneStr,
                                   "Invalid magic: " \o Hex4(magic),
                                   [magic |-> PyInt(magic),
                                    file_size |-> PyInt(f.st_size)])

----------------------------------------------------------------------------
(* The validator applied to files *)

\* struct.pack(">H", n) and struct.pack(">I", n)
Pack16(n) == <<n \div 256, n % 256>>
Pack32(n) ==
    <<n \div 16777216, (n \div 65536) % 256, (n \div 256) % 256, n % 256>>

\* the 20 bytes of a header with the fields h
HeaderBytes(h) ==
    Pack16(h.magic) \o Pack16(h.nscns) \o Pack32(h.timdat) \o Pack32(h.symptr)
        \o Pack32(h.nsyms) \o Pack16(h.opthdr) \o Pack16(h.flags)

\* the fields of the headers; the four-byte fields stay below 2^31
HeaderFields(size) ==
    [magic : {MAGIC_32, MAGIC_64, 0, 57089},
     nscns : {0, 3, 1000, 1001, 65535},
     timdat : {1700000000},
     symptr : {0, 20, size, size + 1, 2147483647},
     nsyms : {258},
     opthdr : {0, 72, 1024, 1025},
     flags : {4098}]

\* the first 20 bytes of an archive
ArchiveBytes == AR_MAGIC \o <<47, 32, 32, 32, 32, 32, 32, 32, 32, 32, 32, 32>>

RegularFile(size, head, fields) ==
    [path |-> "/a", exists |-> TRUE, readable |-> TRUE, st_size |-> size,
     ioerror |-> NoneStr, head |-> head, fields |-> fields]

\* files of fewer than 20 bytes: the first bytes of an archive, of a header
\* with a known magic, or zeros
ShortFiles ==
    {RegularFile(n, SubSeq(proto, 1, n), None) :
        n \in 0..19,
        proto \in {ArchiveBytes, [i \in 1..20 |-> 0]}
                  \cup {HeaderBytes(h) : h \in [magic : {MAGIC_32, MAGIC_64},
                            nscns : {3}, timdat : {1700000000}, symptr : {0},
                            nsyms : {258}, opthdr : {72}, flags : {4098}]}}

\* files of 20 bytes and more that begin with a header
HeaderFiles ==
    UNION {{RegularFile(size, HeaderBytes(h), h) : h \in HeaderFields(size)} :
              size \in {20, 21, 4096}}

ArchiveFiles == {RegularFile(size, ArchiveBytes, None) : size \in {20, 68}}

\* files that are missing, unreadable, or whose reading fails
BadFiles ==
    {[RegularFile(4096, ArchiveBytes, None) EXCEPT !.exists = FALSE],
     [RegularFile(4096, ArchiveBytes, None) EXCEPT !.readable = FALSE],
     [RegularFile(4096, ArchiveBytes, None) EXCEPT
         !.ioerror = "[Errno 21] Is a directory: '/a'"],
     [RegularFile(0, <<>>, None) EXCEPT !.readable = FALSE]}

ValidatorFiles == ShortFiles \cup HeaderFiles \cup ArchiveFiles \cup BadFiles

InitValidate ==
    /\ vfile \in ValidatorFiles
    /\ validation = None
    /\ writer = <<>>
    /\ against = None
    /\ CaptureIdle
    /\ AnalyzeIdle
    /\ files = <<>>
    /\ dirs = {}
    /\ registry = [exists |-> FALSE, rows |-> <<>>]
    /\ clock = 0
    /\ lastOp = [op |-> "none"]
    /\ snap1 = None
    /\ snap2 = None
    /\ hashOrder = <<>>
    /\ pc = "validate"
    /\ result = None
    /\ reverse = None
    /\ selfres = None

\* XCOFFValidator().validate(filepath)
Validate ==
    /\ validation' = validate(vfile)
    /\ UNCHANGED <<vfile, writer, against, cmpVars, storeVars, capVars, anaVars>>

NextValidate == Validate

SpecValidate == InitValidate /\ [][NextValidate]_vars

----------------------------------------------------------------------------
(* Properties of the validator *)

\* validate has returned for a file that exists and can be read
Validated == validation # None /\ vfile.exists /\ vfile.readable

\* C22: for every existing readable file shorter than 20 bytes, whatever its
\* first bytes, validate returns valid = false with the byte count in
\* details.
C22_ShortInput ==
    (Validated /\ vfile.st_size < 20) =>
        /\ ~validation.valid
        /\ validation.details = [file_size |-> PyInt(vfile.st_size)]

C22_Witness ==
    /\ Validated
    /\ vfile.st_size = 8
    /\ vfile.head = AR_MAGIC
    /\ ~validation.valid
    /\ validation.error = "File too small: 8 bytes"
    /\ validation.details.file_size.v = 8

\* the file begins with a 20-byte header with one of the two known magics
KnownHeader ==
    /\ Validated
    /\ vfile.ioerror = NoneStr
    /\ vfile.st_size >= 20
    /\ vfile.fields # None
    /\ vfile.fields.magic \in {MAGIC_32, MAGIC_64}

\* C23: for a header with a known magic the result is valid exactly when
\* the section count is at most 1000, the symbol-table offset is not beyond
\* the file size and the optional-header size is at most 1024; each violated
\* bound adds its own reason to error; valid or not, details holds all the
\* decoded fields and file_type the sub-format.
C23_StructuralChecks ==
    KnownHeader =>
        LET h == vfile.fields
            d == validation.details
        IN  /\ validation.valid <=> /\ h.nscns <= 1000
                                    /\ h.symptr <= vfile.st_size
                                    /\ h.opthdr <= 1024
            /\ validation.valid => validation.error = NoneStr
            /\ h.nscns > 1000 <=>
                   Contains(validation.error,
                            "Suspicious section count: " \o ToString(h.nscns))
            /\ h.symptr > vfile.st_size <=>
                   Contains(validation.error,
                            "Symbol table offset beyond file size")
            /\ h.opthdr > 1024 <=>
                   Contains(validation.error,
                            "Suspicious optional header size: "
                                \o ToString(h.opthdr))
            /\ d = [magic |-> PyStr(IF h.magic = MAGIC_32 THEN "0x01DF"
                                                          ELSE "0x01F7"),
                    sections |-> PyInt(h.nscns),
                    timestamp |-> PyInt(h.timdat),
                    symbol_table_offset |-> PyInt(h.symptr),
                    symbol_count |-> PyInt(h.nsyms),
                    optional_header_size |-> PyInt(h.opthdr),
                    flags |-> PyStr("0x1002"),
                    file_size |-> PyInt(vfile.st_size)]
            /\ validation.file_type =
                   IF h.magic = MAGIC_32 THEN "xcoff32" ELSE "xcoff64"

C23_Witness ==
    /\ KnownHeader
    /\ vfile.fields.magic = MAGIC_32
    /\ vfile.st_size = 21
    /\ vfile.fields.symptr = 22
    /\ vfile.fields.nscns = 3
    /\ vfile.fields.opthdr = 72
    /\ ~validation.valid
    /\ validation.error = "Symbol table offset beyond file size"
    /\ validation.details.symbol_table_offset = PyInt(22)
    /\ validation.file_type = "xcoff32"

----------------------------------------------------------------------------
(* storage.py: list_snapshots, and store calls of concurrent processes *)

\* datetime.fromtimestamp(d.stat().st_mtime).isoformat() of the directory
\* of a name
DirMtime(name) == "mtime of " \o name

\* list_snapshots without the scan of the directories
ListSnapshotsRegistryOnlyMutant(reg, fs, ds) ==
    LET entries == ReadEntries(reg, {})
    IN  [n \in DOMAIN entries |->
            [created |-> entries[n][2],
             file_count |-> ParseInt(entries[n][3]),
             description |-> IF Len(entries[n]) > 3 THEN entries[n][4] ELSE ""]]

\* Storage.list_snapshots, ds being the directories under snapshots/
list_snapshots(reg, fs, ds) ==
    LET entries == ReadEntries(reg, {})
    IN  [n \in (DOMAIN entries) \cup ds |->
            IF n \in DOMAIN entries
            THEN [created |-> entries[n][2],
                  file_count |-> ParseInt(entries[n][3]),
                  description |-> IF Len(entries[n]) > 3 THEN entries[n][4]
                                  ELSE ""]
            ELSE [created |-> DirMtime(n),
                  file_count |-> Cardinality(FilesOf(fs, n)),
                  description |-> ""]]

\* the two processes that call store
Writers == {1, 2}

\* the snapshots they store
WriterSnapshots ==
    {Captured(p, 100, <<>>) : p \in {<<"/", "a">>, <<"/", "l", "s">>}}

\* a call of store(name, snap) before its first statement; the stamps are
\* the values of clock at which the call started, read the registry and
\* rewrote it (0: not yet)
Call(name, snap) ==
    [pc |-> "start", name |-> name, snap |-> [snap EXCEPT !.name = name],
     entries |-> <<>>, file_count |-> 0, now |-> "",
     startAt |-> 0, readAt |-> 0, wroteAt |-> 0]

InitWriters ==
    /\ writer \in [Writers -> {Call(n, s) : n \in SetNames, s \in WriterSnapshots}]
    /\ vfile = None
    /\ validation = None
    /\ against = None
    /\ CaptureIdle
    /\ AnalyzeIdle
    /\ files = <<>>
    /\ dirs = {}
    /\ registry = [exists |-> FALSE, rows |-> <<>>]
    /\ clock = 0
    /\ lastOp = [op |-> "none"]
    /\ snap1 = None
    /\ snap2 = None
    /\ hashOrder = <<>>
    /\ pc = "writers"
    /\ result = None
    /\ reverse = None
    /\ selfres = None

\* what every step of a writer leaves alone
WriterFrame ==
    /\ clock' = clock + 1
    /\ lastOp' = [op |-> "step"]
    /\ UNCHANGED <<valVars, against, cmpVars, capVars, anaVars>>

\* store: _ensure_dirs(name)
EnsureDirs(w) ==
    /\ writer[w].pc = "start"
    /\ dirs' = dirs \cup {writer[w].name}
    /\ writer' = [writer EXCEPT ![w].pc = "dirs", ![w].startAt = clock + 1]
    /\ UNCHANGED <<files, registry>>
    /\ WriterFrame

\* store: the record file is written
WriteRecord(w) ==
    /\ writer[w].pc = "dirs"
    /\ LET json_path == <<writer[w].name,
                          _filepath_to_relpath(writer[w].snap.filepath)>>
       IN  files' = [k \in (DOMAIN files) \cup {json_path} |->
                        IF k = json_path THEN JsonDump(to_dict(writer[w].snap))
                        ELSE files[k]]
    /\ writer' = [writer EXCEPT ![w].pc = "written"]
    /\ UNCHANGED <<dirs, registry>>
    /\ WriterFrame

\* _update_registry: the files are counted and the registry is read
ReadRegistry(w) ==
    /\ writer[w].pc = "written"
    /\ writer' = [writer EXCEPT
                     ![w].pc = "read",
                     ![w].file_count = Cardinality(FilesOf(files, writer[w].name)),
                     ![w].entries = ReadEntries(registry, {}),
                     ![w].now = Now(clock),
                     ![w].readAt = clock + 1]
    /\ UNCHANGED <<files, dirs, registry>>
    /\ WriterFrame

\* _update_registry: the entry of name is updated or added
UpdatedEntries(entries, name, file_count, now) ==
    [n \in (DOMAIN entries) \cup {name} |->
        IF n # name THEN entries[n]
        ELSE IF name \in DOMAIN entries
        THEN [entries[name] EXCEPT ![3] = ToString(file_count)]
        ELSE <<name, now, ToString(file_count), "">>]

\* the registry is read again when it is rewritten
WriteRegistryRereadMutant(w) ==
    /\ writer[w].pc = "read"
    /\ registry' = _update_registry(registry, files, writer[w].name,
                                    writer[w].now)
    /\ writer' = [writer EXCEPT ![w].pc = "done", ![w].wroteAt = clock + 1]
    /\ UNCHANGED <<files, dirs>>
    /\ WriterFrame

\* _update_registry: _write_registry(entries), with the entries read before
WriteRegistry(w) ==
    /\ writer[w].pc = "read"
    /\ registry' = _write_registry(UpdatedEntries(writer[w].entries,
                       writer[w].name, writer[w].file_count, writer[w].now))
    /\ writer' = [writer EXCEPT ![w].pc = "done", ![w].wroteAt = clock + 1]
    /\ UNCHANGED <<files, dirs>>
    /\ WriterFrame

\* Storage.list_snapshots() called by a third process
ListSnapshots ==
    /\ lastOp' = [op |-> "list_snapshots",
                  ret |-> list_snapshots(registry, files, dirs)]
    /\ UNCHANGED <<files, dirs, registry, clock, writer, valVars, against,
                   cmpVars, capVars, anaVars>>

NextWriters ==
    \/ \E w \in Writers : EnsureDirs(w)
    \/ \E w \in Writers : WriteRecord(w)
    \/ \E w \in Writers : ReadRegistry(w)
    \/ \E w \in Writers : WriteRegistry(w)
    \/ ListSnapshots

SpecWriters == InitWriters /\ [][NextWriters]_vars

----------------------------------------------------------------------------
(* Properties of the registry under concurrent store calls *)

\* the names that have a row in the registry file
RegistryNames == DOMAIN ReadEntries(registry, {})

\* C24: in every state of the database, listSnapshots returns an entry for
\* every name that has a directory under snapshots/, also when the registry
\* file is missing or lacks the name; for a name absent from the registry
\* the entry's file_count is the recursive count of the record files of its
\* directory and its description is empty, and for a name present in the
\* registry the registry row is returned.
C24_SelfHealingListing ==
    lastOp.op = "list_snapshots" =>
        /\ dirs \subseteq DOMAIN lastOp.ret
        /\ \A n \in dirs \ RegistryNames :
               /\ lastOp.ret[n].file_count = Cardinality(FilesOf(files, n))
               /\ lastOp.ret[n].description = ""
        /\ \A i \in DOMAIN registry.rows :
               LET row == registry.rows[i]
               IN  /\ row[1] \in DOMAIN lastOp.ret
                   /\ lastOp.ret[row[1]].created = row[2]
                   /\ ToString(lastOp.ret[row[1]].file_count) = row[3]
                   /\ lastOp.ret[row[1]].description = ""

C24_Witness ==
    /\ lastOp.op = "list_snapshots"
    /\ dirs = {"v1", "v2"}
    /\ registry.exists
    /\ RegistryNames = {"v2"}
    /\ lastOp.ret["v1"].file_count = 1
    /\ lastOp.ret["v1"].description = ""
    /\ lastOp.ret["v2"].created = registry.rows[1][2]

\* both calls have returned and their names differ
BothDone ==
    /\ \A w \in Writers : writer[w].pc = "done"
    /\ writer[1].name # writer[2].name

\* the call of a returned before the call of b started
OneAfterTheOther(a, b) == writer[a].wroteAt < writer[b].startAt

\* a and b both read the registry before either rewrote it, b writing last
BothReadFirst(a, b) ==
    /\ writer[a].readAt < writer[b].wroteAt
    /\ writer[b].readAt < writer[a].wroteAt
    /\ writer[a].wroteAt < writer[b].wroteAt

\* C26: when two store calls for different names run one after the other,
\* the rewritten registry holds a row for both names; when both read the
\* registry before either rewrites it, the final registry lacks the name of
\* the call that rewrote first (a lost update); in both cases the record
\* files of both calls exist.
C26_SingleWriterOnly ==
    BothDone =>
        /\ \A a, b \in Writers :
               OneAfterTheOther(a, b) =>
                   RegistryNames = {writer[a].name, writer[b].name}
        /\ \A a, b \in Writers :
               BothReadFirst(a, b) => RegistryNames = {writer[b].name}
        /\ \A w \in Writers :
               <<writer[w].name, _filepath_to_relpath(writer[w].snap.filepath)>>
                   \in DOMAIN files

C26_Witness ==
    /\ BothDone
    /\ BothReadFirst(1, 2)
    /\ writer[1].name = "v1"
    /\ writer[2].name = "v2"
    /\ RegistryNames = {"v2"}
    /\ Len(registry.rows) = 1
    /\ Cardinality(DOMAIN files) = 2
    /\ dirs = {"v1", "v2"}

\* C25: the first call of get_all_analyzers populates the registry with the
\* three built-in analyzers keyed by name, in the order what, dump-h,
\* dump-T, whatever calls of register_analyzer came before it: once capture
\* has called get_all_analyzers the registry holds the three built-in
\* names in that order.
C25_RegistryPopulation ==
    capPc = "running" =>
        SelectSeq(_ANALYZERS, LAMBDA n : n \in BuiltinNames)
            = <<"what", "dump-h", "dump-T">>

----------------------------------------------------------------------------
(* The registry under one writer: store and delete_snapshot calls *)

\* names of snapshot sets, one of which begins like a comment line of the
\* registry file
KeyNames == {"v1", "v2", "#x"}

RegistrySnapshots == {Captured(p, 100, <<>>) : p \in StorePaths}

NextRegistry ==
    \/ \E name \in KeyNames, snap \in RegistrySnapshots : Store(name, snap)
    \/ \E name \in KeyNames : DeleteSnapshot(name)

SpecRegistry == InitStore /\ [][NextRegistry]_vars

\* the created timestamp of the row of name n in the registry reg
CreatedOf(reg, n) ==
    LET i == CHOOSE i \in DOMAIN reg.rows : reg.rows[i][1] = n
    IN  reg.rows[i][2]

\* C27: after any sequence of store and deleteSnapshot calls from an empty
\* database the registry file has exactly one row per name whose directory
\* exists and no other row, sorted by name; each row's file_count is the
\* number of record files under the name's directory; a name's created
\* timestamp stays the one written at its first store; deleteSnapshot of a
\* name without directory returns false and changes nothing.
C27_RegistryConsistency ==
    [][LET rows == registry'.rows
       IN  /\ [i \in DOMAIN rows |-> rows[i][1]] = Sorted(dirs')
           /\ \A i \in DOMAIN rows :
                  rows[i][3] = ToString(Cardinality(FilesOf(files', rows[i][1])))
           /\ \A n \in dirs \cap dirs' :
                  (\E i \in DOMAIN registry.rows : registry.rows[i][1] = n) =>
                      /\ \E i \in DOMAIN rows : rows[i][1] = n
                      /\ CreatedOf(registry', n) = CreatedOf(registry, n)
           /\ (lastOp'.op = "delete" /\ ~lastOp'.ret) =>
                  UNCHANGED <<files, dirs, registry>>]_vars

\* a token that can be a name: no marker keyword, not the storage-class tag,
\* not 0x-prefixed, not starting with "[", not purely numeric, not starting
\* with "."
CanBeName(part) ==
    /\ part \notin {"IMP", "EXP", "EXTref", "SECdef", "DS"}
    /\ ~StartsWith(part, "0x")
    /\ ~StartsWith(part, "[")
    /\ ~IsDigit(part)
    /\ ~StartsWith(part, ".")

HasName(line) == \E i \in DOMAIN line : CanBeName(line[i])

\* the last token of the line that can be a name
LastName(line) ==
    line[CHOOSE i \in DOMAIN line :
             /\ CanBeName(line[i])
             /\ \A j \in DOMAIN line : CanBeName(line[j]) => j <= i]

\* the first 0x-prefixed token of the line, or none
FirstAddress(line) ==
    IF \E i \in DOMAIN line : StartsWith(line[i], "0x")
    THEN OptStr(line[CHOOSE i \in DOMAIN line :
                         /\ StartsWith(line[i], "0x")
                         /\ \A j \in DOMAIN line :
                                StartsWith(line[j], "0x") => i <= j])
    ELSE OptStr(NoneStr)

\* C28: for every output line that contains an import or export marker,
\* whatever its number of tokens, the recorded name is the last token of
\* the line that can be a name; a marked line with no such token adds no
\* entry; an export entry carries as address the first 0x-prefixed token of
\* the line, or none.
C28_NameRecovery ==
    (Analyzed("dump-T") /\ analysis.result.success) =>
        LET out == tool["dump -Tv"].stdout
            data == analysis.result.data.v
            imp == SelectSeq(out, LAMBDA l : HasImportMarker(l) /\ HasName(l))
            exp == SelectSeq(out, LAMBDA l : /\ ~HasImportMarker(l)
                                             /\ HasExportMarker(l)
                                             /\ HasName(l))
        IN  /\ Len(data.imports.v) = Len(imp)
            /\ Len(data.exports.v) = Len(exp)
            /\ \A i \in DOMAIN imp :
                   /\ i \in DOMAIN data.imports.v
                   /\ data.imports.v[i].v.raw.v = LineText(imp[i])
                   /\ data.imports.v[i].v.name.v = LastName(imp[i])
            /\ \A i \in DOMAIN exp :
                   /\ i \in DOMAIN data.exports.v
                   /\ data.exports.v[i].v.raw.v = LineText(exp[i])
                   /\ data.exports.v[i].v.name.v = LastName(exp[i])
                   /\ data.exports.v[i].v.address = FirstAddress(exp[i])

\* C29: for every path argument P that names an existing valid file, a
\* relative path or a path through a symbolic link included, after the
\* snapshot command has stored P under NAME the compare command run with
\* the same P and --against NAME loads that stored snapshot: the lookup
\* returns the snapshot whose filepath is the resolved path of P.
C29_StoreThenCompareAgainst ==
    against # None =>
        /\ IsSnapshot(against.ret)
        /\ against.ret.filepath = Resolve(PathStr(against.file1))
        /\ against.ret.name = against.name


\* C30: the diff of a named set with itself reports no changed, added or
\* removed file, and every filepath list_files returns for a name is one
\* load finds under that name.
C30_SelfDiffEmpty ==
    /\ (lastOp.op = "diff" /\ lastOp.name1 = lastOp.name2) =>
           lastOp.ret = [code |-> 0, comparisons |-> {}]
    /\ \A name \in dirs : \A f \in Range(list_files(files, name)) :
           IsSnapshot(load(files, name, f))

====
